---- MODULE Spec2Model ----
(***************************************************************************)
(* Model of the EVE combat-log parser (package eve_combat_parser).         *)
(*                                                                         *)
(* Text is modelled as a sequence of characters; the no-break space        *)
(* "nbsp", the invisible character "zw" and the dashes "endash" and        *)
(* "emdash" are one character each.  The empty string is the empty         *)
(* sequence <<>>.  Timestamps are integers counting seconds.               *)
(***************************************************************************)
EXTENDS Integers, Sequences, FiniteSets

VARIABLES
    ship_timeline,  \* Timeline: stripped pilot name -> list of ShipStateEvent
    tl_final,       \* TRUE once finalize_timeline has run (end of pass 1)
    tl_query,       \* the last lookup_ship call: [pilot, t]
    tl_result,      \* its result <<ship, alliance, corp>>
    seg_rows,       \* the timestamps of the rows given to split_rows_into_fights
    seg_gap,        \* its gap_minutes argument
    seg_out,        \* its result, a list of FightWindow
    seg_done,       \* TRUE once split_rows_into_fights has returned
    fight_combat_rows,  \* the rows of the fight being enriched
    pilot_db,       \* the persistent pilot DB: key -> PilotInfo
    aff_log,        \* corp -> AffiliationRecord learned from the logs
    aff_esi_db,        \* corp -> AffiliationRecord learned from lookups
    esi_io,         \* the lookup cache, and the log of requests and sleeps
    esi_net,        \* how the network answers
    item_names,   \* the reference item names, lower case
    no_esi,         \* the --no-esi switch
    clock,            \* the clock read by datetime.now()
    en_run,         \* which run of the chain is under way
    en_pc,          \* the next pass of the chain
    rows_at_start,  \* the rows as the first run found them
    rows_after_first,   \* the rows as the first run left them
    log_lines,      \* the lines of the log files, file after file
    all_combat_rows,    \* the rows pass 2 made of them; a fight's rows are
                        \* rows of this list, changed where they stand
    fight_windows,  \* the windows the rows were split into
    fight_i,        \* the fight the loop is at
    fight_output,   \* fight by fight: the window, the rows as the files hold
                    \* them (rows, in the order of fight_combat_rows), their
                    \* kinds, and the rows of each file (written)
    pl_pc,          \* where main is
    tl_window,      \* the last restrict_timeline call: [start, end]
    tl_restricted,  \* its result, a Timeline
    lk_calls,       \* the pilot names given to esi_get_pilot_alliance_and_corpinfo so far
    lk_results,     \* the (alliance_ticker, corp_ticker) pairs these calls returned
    af_obs,         \* the (corp, alliance, ts) given to update_affiliation_db so far
    ps_read,        \* the lines of the log file read so far by parse_log_file_to_rows,
                    \* and behind them the lines left unread once parse_ts has raised
    ps_listener,    \* its listener: the name of the last "Listener:" line
    ps_out,         \* the typed records it appended to out, in order
    ps_others,      \* the records it appended to others_rows
    ps_pc,          \* "reading", or "raised" once parse_ts has raised
    p1_read,        \* the lines read so far by build_ship_timeline_and_afflog
    p1_listener,    \* its listener
    p1_pc,          \* "reading", "raised" once parse_ts has raised, "done" once
                    \* build_ship_timeline_and_afflog has returned
    fn_args,        \* the arguments of the last call of a function checked on its own
    fn_result,      \* what the call returned
    cli_args,       \* the switches main was started with, and the files it finds
    cli_pc,         \* where main is on its way to the parsing
    cli_prompts     \* the prompts so far: question, default, answer, and whether input() was called

enVars ==
    <<fight_combat_rows, pilot_db, aff_log, aff_esi_db, esi_io, esi_net, item_names,
      no_esi, clock, en_run, en_pc, rows_at_start, rows_after_first>>

plVars == <<log_lines, all_combat_rows, fight_windows, fight_i, fight_output, pl_pc>>

rsVars == <<tl_window, tl_restricted>>

\* The state of the operations that are checked on their own.
lkVars == <<lk_calls, lk_results>>

afVars == <<af_obs>>

psVars == <<ps_read, ps_listener, ps_out, ps_others, ps_pc, p1_read, p1_listener, p1_pc>>

fnVars == <<fn_args, fn_result>>

cliVars == <<cli_args, cli_pc, cli_prompts>>

auxVars == <<rsVars, lkVars, afVars, psVars, fnVars, cliVars>>

vars ==
    <<ship_timeline, tl_final, tl_query, tl_result, seg_rows, seg_gap, seg_out, seg_done,
      enVars, plVars, auxVars>>

tlVars == <<ship_timeline, tl_final, tl_query, tl_result>>
segVars == <<seg_rows, seg_gap, seg_out, seg_done>>

----------------------------------------------------------------------------
(* Bounds of the model *)

MaxEvents == 3
MaxT == 4
MaxSegRows == 3
MaxSegMinute == 2
MaxFightRows == 1
MaxRuns == 2
MaxLogLines == 3
MaxRestrictT == 2
MaxRestrictEvents == 3
MaxLookups == 3
MaxAffUpdates == 3
MaxAffT == 2
MaxFileLines == 3
MaxTrailer == 2
MaxSubfolders == 2
MaxSelections == 1
MaxJamRows == 3
MaxTypedRows == 2
MaxOtherRows == 2

----------------------------------------------------------------------------
(* Text helpers *)

\* Characters removed by str.strip() and matched by \s (the no-break space
\* is Unicode whitespace).
WhitespaceChars == {" ", "nbsp"}

\* _ZERO_WIDTH_RE
ZeroWidthChars == {"zw"}

\* A text is a sequence of characters.  The blank, the no-break space
\* ("nbsp"), the zero-width character ("zw") and the dashes ("endash",
\* "emdash") are one character each.

\* p in t, t.startswith(p), t.endswith(p)
Infix(p, t) == \E i \in 0..(Len(t) - Len(p)) : SubSeq(t, i + 1, i + Len(p)) = p
StartsWith(t, p) == Len(p) <= Len(t) /\ SubSeq(t, 1, Len(p)) = p
EndsWith(t, p) == Len(p) <= Len(t) /\ SubSeq(t, Len(t) - Len(p) + 1, Len(t)) = p

\* str.lower() of a character: a capital letter has a small one, another
\* character stays.
LowerChar(ch) ==
    CASE ch = "A" -> "a" [] ch = "B" -> "b" [] ch = "C" -> "c" [] ch = "D" -> "d"
      [] ch = "E" -> "e" [] ch = "F" -> "f" [] ch = "G" -> "g" [] ch = "H" -> "h"
      [] ch = "I" -> "i" [] ch = "J" -> "j" [] ch = "K" -> "k" [] ch = "L" -> "l"
      [] ch = "M" -> "m" [] ch = "N" -> "n" [] ch = "O" -> "o" [] ch = "P" -> "p"
      [] ch = "Q" -> "q" [] ch = "R" -> "r" [] ch = "S" -> "s" [] ch = "T" -> "t"
      [] ch = "U" -> "u" [] ch = "V" -> "v" [] ch = "W" -> "w" [] ch = "X" -> "x"
      [] ch = "Y" -> "y" [] ch = "Z" -> "z"
      [] OTHER -> ch

EmptyStr == <<>>

\* str.lower()
Lower(s) == [i \in 1..Len(s) |-> LowerChar(s[i])]


\* Tickers, ship types and names of the inputs
Rifter == <<"R", "i", "f", "t", "e", "r">>
Punisher == <<"P", "u", "n", "i", "s", "h", "e", "r">>
CorpC1 == <<"C", "1">>
CorpC2 == <<"C", "2">>
AllianceA1 == <<"A", "1">>
AllianceA2 == <<"A", "2">>
AllianceA3 == <<"A", "3">>
ShipS1 == <<"S", "1">>
ShipS9 == <<"S", "9">>
TickerALL == <<"A", "L", "L">>
TickerCORP == <<"C", "O", "R", "P">>
PilotText == <<"P", "i", "l", "o", "t">>
ShipText == <<"S", "h", "i", "p">>
Loki == <<"L", "o", "k", "i">>
InternationalShoe == <<"I", "n", "t", "e", "r", "n", "a", "t", "i", "o", "n", "a", "l", " ", "S", "h", "o", "e">>
StabberFleetIssue == <<"S", "t", "a", "b", "b", "e", "r", " ", "F", "l", "e", "e", "t", " ", "I", "s", "s", "u", "e">>

\* Python's None, where a field is Optional.
None == <<"None">>

RECURSIVE LStrip(_)
LStrip(s) ==
    IF s = <<>> THEN <<>>
    ELSE IF Head(s) \in WhitespaceChars THEN LStrip(Tail(s))
    ELSE s

RECURSIVE RStrip(_)
RStrip(s) ==
    IF s = <<>> THEN <<>>
    ELSE IF s[Len(s)] \in WhitespaceChars THEN RStrip(SubSeq(s, 1, Len(s) - 1))
    ELSE s

\* str.strip()
Strip(s) == RStrip(LStrip(s))

\* bool(x) of an Optional[str]
Truthy(s) == s # None /\ s # <<>>

----------------------------------------------------------------------------
(* timeline.py *)

ShipStateEvent(t, ship, alliance, corp) ==
    [t |-> t, ship |-> ship, alliance |-> alliance, corp |-> corp]

\* The "no event" answer of _next_known_ship_after.
NoEvent == [t |-> 0 - 1, ship |-> None, alliance |-> <<>>, corp |-> <<>>]

EmptyTimeline == [p \in {} |-> <<>>]

\* timeline.get(pilot): the pilot's events, <<>> for an unknown pilot
EventsOf(timeline, pilot) ==
    IF pilot \in DOMAIN timeline THEN timeline[pilot] ELSE <<>>

add_ship_event(timeline, pilot, t, ship, alliance, corp) ==
    LET p == Strip(pilot) IN
    IF p = <<>> THEN timeline
    ELSE [k \in (DOMAIN timeline) \cup {p} |->
            IF k = p
            THEN Append(EventsOf(timeline, p), ShipStateEvent(t, ship, alliance, corp))
            ELSE timeline[k]]

\* Insert e behind every event whose time is <= e.t (list.sort is stable).
RECURSIVE InsertByT(_, _)
InsertByT(sorted, e) ==
    IF sorted = <<>> THEN <<e>>
    ELSE IF sorted[Len(sorted)].t <= e.t THEN Append(sorted, e)
    ELSE Append(InsertByT(SubSeq(sorted, 1, Len(sorted) - 1), e), sorted[Len(sorted)])

RECURSIVE SortByT(_)
SortByT(events) ==
    IF events = <<>> THEN <<>>
    ELSE InsertByT(SortByT(SubSeq(events, 1, Len(events) - 1)), events[Len(events)])

finalize_timeline(timeline) ==
    [p \in DOMAIN timeline |-> SortByT(timeline[p])]

\* Variant of restrict_timeline: the end of the range is excluded.
restrict_timeline_open_end(timeline, start, end) ==
    LET Sub(p) == SelectSeq(timeline[p], LAMBDA e : start <= e.t /\ e.t < end)
    IN  [p \in {q \in DOMAIN timeline : Sub(q) # <<>>} |-> Sub(p)]

restrict_timeline(timeline, start, end) ==
    LET Sub(p) == SelectSeq(timeline[p], LAMBDA e : start <= e.t /\ e.t <= end)
    IN  [p \in {q \in DOMAIN timeline : Sub(q) # <<>>} |-> Sub(p)]

\* Indices are 1-based; 0 stands for Python's -1.
RECURSIVE _prev_disembark_index(_, _)
_prev_disembark_index(events, start_i) ==
    IF start_i < 1 THEN 0
    ELSE IF events[start_i].ship = None THEN start_i
    ELSE _prev_disembark_index(events, start_i - 1)

\* Variant: the scan starts at start_i itself, which is the boundary.
_next_known_ship_after_from_start(events, start_i) ==
    IF start_i > Len(events) THEN NoEvent
    ELSE IF events[start_i].ship = None THEN NoEvent
    ELSE events[start_i]

\* Variant: the scan does not stop at a further disembark boundary.
RECURSIVE _next_known_ship_after_no_stop(_, _)
_next_known_ship_after_no_stop(events, start_i) ==
    IF start_i + 1 > Len(events) THEN NoEvent
    ELSE IF Truthy(events[start_i + 1].ship) THEN events[start_i + 1]
    ELSE _next_known_ship_after_no_stop(events, start_i + 1)

RECURSIVE _next_known_ship_after(_, _)
_next_known_ship_after(events, start_i) ==
    IF start_i + 1 > Len(events) THEN NoEvent
    ELSE IF events[start_i + 1].ship = None THEN NoEvent
    ELSE IF Truthy(events[start_i + 1].ship) THEN events[start_i + 1]
    ELSE _next_known_ship_after(events, start_i + 1)

\* Variant of ScanIdx: the comparison is strict (ev.t < t).
RECURSIVE ScanIdx_strict(_, _, _, _)
ScanIdx_strict(events, t, i, idx) ==
    IF i > Len(events) THEN idx
    ELSE IF events[i].t < t THEN ScanIdx_strict(events, t, i + 1, i)
    ELSE idx

\* The scan of resolve_ship_with_backfill: the index of the last event of the
\* leading run of events with ev.t <= t (the loop breaks at the first later one).
RECURSIVE ScanIdx(_, _, _, _)
ScanIdx(events, t, i, idx) ==
    IF i > Len(events) THEN idx
    ELSE IF events[i].t <= t THEN ScanIdx(events, t, i + 1, i)
    ELSE idx

Unknown == <<EmptyStr, EmptyStr, EmptyStr>>

resolve_ship_with_backfill(events, t) ==
    IF events = <<>> THEN Unknown
    ELSE
    LET idx == ScanIdx(events, t, 1, 0) IN
    IF idx < 1
    THEN (IF Truthy(events[1].ship)
          THEN <<events[1].ship, events[1].alliance, events[1].corp>>
          ELSE Unknown)
    ELSE
    LET ev == events[idx] IN
    IF Truthy(ev.ship) THEN <<ev.ship, ev.alliance, ev.corp>>
    ELSE
    LET d_idx == _prev_disembark_index(events, idx)
        nxt == IF d_idx # 0 THEN _next_known_ship_after(events, d_idx) ELSE NoEvent
    IN  IF d_idx # 0 /\ nxt # NoEvent /\ t <= nxt.t
        THEN <<(IF Truthy(nxt.ship) THEN nxt.ship ELSE EmptyStr), nxt.alliance, nxt.corp>>
        ELSE Unknown

lookup_ship(timeline, pilot, t) ==
    LET events == EventsOf(timeline, Strip(pilot)) IN
    IF events = <<>> THEN Unknown
    ELSE resolve_ship_with_backfill(events, t)

----------------------------------------------------------------------------
(* fights.py *)

\* A row's timestamp text: well formed, and then it spells a number of
\* seconds, or malformed.
TsText(n) == [wellformed |-> TRUE, seconds |-> n]
BadTs == [wellformed |-> FALSE, seconds |-> 0]

\* The None of an Optional[datetime]; datetimes are >= 0.
NoTime == 0 - 1

\* datetime.strptime(ts.strip(), TS_FMT), None when it raises
_parse_ts(ts) == IF ts.wellformed THEN ts.seconds ELSE NoTime

SecondsPerMinute == 60

FightWindow(start, end) == [start |-> start, end |-> end]

RECURSIVE InsertSorted(_, _)
InsertSorted(sorted, x) ==
    IF sorted = <<>> THEN <<x>>
    ELSE IF sorted[Len(sorted)] <= x THEN Append(sorted, x)
    ELSE Append(InsertSorted(SubSeq(sorted, 1, Len(sorted) - 1), x), sorted[Len(sorted)])

\* Variant of SortTimes: the times are left in row order.
SortTimes_unsorted(times) == times

RECURSIVE SortTimes(_)
SortTimes(times) ==
    IF times = <<>> THEN <<>>
    ELSE InsertSorted(SortTimes(SubSeq(times, 1, Len(times) - 1)), times[Len(times)])

\* The parseable timestamps of the rows, in row order.
RECURSIVE ParsedTimes(_)
ParsedTimes(timestamps) ==
    IF timestamps = <<>> THEN <<>>
    ELSE LET t == _parse_ts(Head(timestamps)) IN
         IF t # NoTime THEN <<t>> \o ParsedTimes(Tail(timestamps))
         ELSE ParsedTimes(Tail(timestamps))

\* Variant of SplitLoop: a gap equal to the threshold already splits.
RECURSIVE SplitLoop_ge(_, _, _, _, _)
SplitLoop_ge(rest, gap, start, prev, out) ==
    IF rest = <<>> THEN Append(out, FightWindow(start, prev))
    ELSE LET t == Head(rest) IN
         IF t - prev >= gap
         THEN SplitLoop_ge(Tail(rest), gap, t, t, Append(out, FightWindow(start, prev)))
         ELSE SplitLoop_ge(Tail(rest), gap, start, t, out)

\* The loop over times[1:]: start and prev are the loop's variables.
RECURSIVE SplitLoop(_, _, _, _, _)
SplitLoop(rest, gap, start, prev, out) ==
    IF rest = <<>> THEN Append(out, FightWindow(start, prev))
    ELSE LET t == Head(rest) IN
         IF t - prev > gap
         THEN SplitLoop(Tail(rest), gap, t, t, Append(out, FightWindow(start, prev)))
         ELSE SplitLoop(Tail(rest), gap, start, t, out)

split_rows_into_fights(timestamps, gap_minutes) ==
    LET times == SortTimes(ParsedTimes(timestamps))
        gap == gap_minutes * SecondsPerMinute
    IN  IF times = <<>> THEN <<>>
        ELSE SplitLoop(Tail(times), gap, times[1], times[1], <<>>)

\* Variant of InWindow: the window's end is left out.
InWindow_open(ts, window) ==
    LET t == _parse_ts(ts) IN
    t # NoTime /\ window.start <= t /\ t < window.end

InWindow(ts, window) ==
    LET t == _parse_ts(ts) IN
    t # NoTime /\ window.start <= t /\ t <= window.end

\* filter_rows_by_window, on rows that carry a timestamp field
filter_rows_by_window(rs, window) ==
    SelectSeq(rs, LAMBDA r : InWindow(r.timestamp, window))

----------------------------------------------------------------------------
(* text.py, npc.py: keys and lexical item checks *)

RECURSIVE RemoveZeroWidth(_)
RemoveZeroWidth(s) ==
    IF s = <<>> THEN <<>>
    ELSE IF Head(s) \in ZeroWidthChars THEN RemoveZeroWidth(Tail(s))
    ELSE <<Head(s)>> \o RemoveZeroWidth(Tail(s))

\* s.replace(no-break space, " ")
ReplaceNbsp(s) == [i \in 1..Len(s) |-> IF s[i] = "nbsp" THEN " " ELSE s[i]]

\* re.sub(r"\s+", " ", s)
RECURSIVE CollapseWhitespace(_)
CollapseWhitespace(s) ==
    IF s = <<>> THEN <<>>
    ELSE IF Head(s) \in WhitespaceChars
         THEN <<" ">> \o CollapseWhitespace(LStrip(Tail(s)))
         ELSE <<Head(s)>> \o CollapseWhitespace(Tail(s))

normalize_key(s) ==
    IF s = <<>> THEN <<>>
    ELSE Strip(CollapseWhitespace(ReplaceNbsp(RemoveZeroWidth(s))))

\* pilot_db._nk and affiliations._norm_key
_nk(s) == normalize_key(s)

_norm_name(s) == Lower(Strip(s))

_ROMAN_SUFFIXES ==
    {<<" ", "i">>, <<" ", "i", "i">>, <<" ", "i", "i", "i">>, <<" ", "i", "v">>,
     <<" ", "v">>, <<" ", "v", "i">>, <<" ", "v", "i", "i">>, <<" ", "v", "i", "i", "i">>,
     <<" ", "i", "x">>, <<" ", "x">>}
_DRONE_KEYWORDS ==
    {<<"d", "r", "o", "n", "e">>, <<"s", "e", "n", "t", "r", "y">>,
     <<"f", "i", "g", "h", "t", "e", "r">>}
_DRONE_PREFIXES ==
    {<<"w", "a", "r", "r", "i", "o", "r">>, <<"h", "o", "b", "g", "o", "b", "l", "i", "n">>,
     <<"h", "a", "m", "m", "e", "r", "h", "e", "a", "d">>, <<"o", "g", "r", "e">>,
     <<"i", "n", "f", "i", "l", "t", "r", "a", "t", "o", "r">>,
     <<"p", "r", "a", "e", "t", "o", "r">>, <<"v", "e", "s", "p", "a">>,
     <<"h", "o", "r", "n", "e", "t">>, <<"g", "a", "r", "d", "e">>,
     <<"c", "u", "r", "a", "t", "o", "r">>, <<"w", "a", "r", "d", "e", "n">>,
     <<"b", "o", "u", "n", "c", "e", "r">>, <<"g", "e", "c", "k", "o">>}
_CHARGE_KEYWORDS ==
    {<<"m", "i", "s", "s", "i", "l", "e">>, <<"t", "o", "r", "p", "e", "d", "o">>,
     <<"r", "o", "c", "k", "e", "t">>, <<"b", "o", "m", "b">>,
     <<"c", "h", "a", "r", "g", "e">>, <<"c", "r", "y", "s", "t", "a", "l">>,
     <<"s", "h", "e", "l", "l">>, <<"s", "l", "u", "g">>,
     <<"p", "r", "o", "j", "e", "c", "t", "i", "l", "e">>,
     <<"w", "a", "r", "h", "e", "a", "d">>, <<"a", "m", "m", "o">>}

\* any(kw in n for kw in keywords)
HasKeyword(n, keywords) == \E kw \in keywords : Infix(kw, n)

\* n.split()[-1]: the characters behind the last whitespace of the text
\* without its trailing whitespace (none when the text has no word)
RECURSIVE LastWord(_)
LastWord(n) ==
    IF n = <<>> THEN <<>>
    ELSE IF n[Len(n)] \in WhitespaceChars THEN LastWord(SubSeq(n, 1, Len(n) - 1))
    ELSE LET word_at == {i \in 1..Len(n) : \A j \in i..Len(n) : n[j] \notin WhitespaceChars}
         IN  SubSeq(n, CHOOSE i \in word_at : \A j \in word_at : i <= j, Len(n))

looks_like_drone(name, item_names_lower) ==
    LET n == _norm_name(name)
        in_sde == item_names_lower = {} \/ n \in item_names_lower
    IN  /\ n # <<>>
        /\ in_sde
        /\ \/ HasKeyword(n, _DRONE_KEYWORDS)
           \/ \E pref \in _DRONE_PREFIXES : StartsWith(n, pref \o <<" ">>) \/ n = pref
           \/ Infix(<<" ", "e", "c", "-">>, n)
           \/ \E suffix \in _ROMAN_SUFFIXES : EndsWith(n, suffix)

looks_like_charge(name, item_names_lower) ==
    LET n == _norm_name(name)
        in_sde == item_names_lower = {} \/ n \in item_names_lower
    IN  /\ n # <<>>
        /\ HasKeyword(n, _CHARGE_KEYWORDS)
        /\ (in_sde \/ LastWord(n) \in _CHARGE_KEYWORDS)

----------------------------------------------------------------------------
(* Rows: a combat row carries a timestamp, the listener and two parties,   *)
(* source and target, each with pilot, corp, alliance and ship_type.       *)

Sides == <<"source", "target">>
SideSet == {"source", "target"}
Fields == {"corp", "alliance", "ship_type"}

Party(pilot, corp, alliance, ship_type) ==
    [pilot |-> pilot, corp |-> corp, alliance |-> alliance, ship_type |-> ship_type]

Row(timestamp, listener, source, target) ==
    [timestamp |-> timestamp, log_listener |-> listener, source |-> source, target |-> target]

\* dict.get(key) with a default, and dict[key] = value
DictGet(d, k, default) == IF k \in DOMAIN d THEN d[k] ELSE default
DictPut(d, k, v) == [x \in (DOMAIN d) \cup {k} |-> IF x = k THEN v ELSE d[x]]
EmptyDict == [x \in {} |-> <<>>]

----------------------------------------------------------------------------
(* pilot_db.py *)

PilotInfo(corp, alliance, ship_type) ==
    [corp |-> corp, alliance |-> alliance, ship_type |-> ship_type]

BlankInfo == PilotInfo(<<>>, <<>>, <<>>)

\* One (row, side) step of learn_from_rows_excluding_items.
LearnParty(db, party, item_names_lower, learn_ship) ==
    IF looks_like_drone(party.pilot, item_names_lower)
       \/ looks_like_charge(party.pilot, item_names_lower)
    THEN db
    ELSE
    LET pilot == _nk(party.pilot)
        corp == Strip(party.corp)
        allc == Strip(party.alliance)
        ship == Strip(party.ship_type)
        cur == DictGet(db, pilot, BlankInfo)
        new == PilotInfo(IF corp # <<>> THEN corp ELSE cur.corp,
                         IF allc # <<>> THEN allc ELSE cur.alliance,
                         IF learn_ship /\ ship # <<>> THEN ship ELSE cur.ship_type)
    IN  IF pilot = <<>> \/ new = cur THEN db ELSE DictPut(db, pilot, new)

RECURSIVE learn_from_rows_excluding_items(_, _, _, _)
learn_from_rows_excluding_items(db, rs, item_names_lower, learn_ship) ==
    IF rs = <<>> THEN db
    ELSE learn_from_rows_excluding_items(
            LearnParty(LearnParty(db, Head(rs).source, item_names_lower, learn_ship),
                       Head(rs).target, item_names_lower, learn_ship),
            Tail(rs), item_names_lower, learn_ship)

\* Variant of BackfillParty: the fields are written whether blank or not.
BackfillParty_overwrite(db, party, fill_ship) ==
    LET pilot == _nk(party.pilot)
        info == DictGet(db, pilot, BlankInfo)
    IN  IF pilot = <<>> \/ pilot \notin DOMAIN db THEN party
        ELSE [party EXCEPT
                !.corp = IF info.corp # <<>> THEN info.corp ELSE @,
                !.alliance = IF info.alliance # <<>> THEN info.alliance ELSE @,
                !.ship_type = IF fill_ship /\ info.ship_type # <<>> THEN info.ship_type ELSE @]

\* One (row, side) step of backfill_rows_from_db.
BackfillParty(db, party, fill_ship) ==
    LET pilot == _nk(party.pilot)
        info == DictGet(db, pilot, BlankInfo)
    IN  IF pilot = <<>> \/ pilot \notin DOMAIN db THEN party
        ELSE [party EXCEPT
                !.corp = IF Strip(@) = <<>> /\ info.corp # <<>> THEN info.corp ELSE @,
                !.alliance = IF Strip(@) = <<>> /\ info.alliance # <<>> THEN info.alliance ELSE @,
                !.ship_type = IF fill_ship /\ Strip(@) = <<>> /\ info.ship_type # <<>>
                              THEN info.ship_type ELSE @]

backfill_rows_from_db(db, rs, fill_ship) ==
    [i \in 1..Len(rs) |->
        [rs[i] EXCEPT !.source = BackfillParty(db, @, fill_ship),
                      !.target = BackfillParty(db, @, fill_ship)]]

----------------------------------------------------------------------------
(* affiliations.py *)

AffiliationRecord(alliance, first_seen, last_seen) ==
    [alliance |-> alliance, first_seen |-> first_seen, last_seen |-> last_seen]

\* One (row, side) step of build_pilot_ticker_maps.
TickerParty(maps, party) ==
    LET pilot == _nk(party.pilot)
        corp == _nk(party.corp)
        allc == _nk(party.alliance)
    IN  IF pilot = <<>> THEN maps
        ELSE [pilot_to_corp |-> IF corp # <<>> THEN DictPut(maps.pilot_to_corp, pilot, corp)
                                ELSE maps.pilot_to_corp,
              pilot_to_all |-> IF allc # <<>> THEN DictPut(maps.pilot_to_all, pilot, allc)
                               ELSE maps.pilot_to_all]

RECURSIVE TickerRows(_, _)
TickerRows(maps, rs) ==
    IF rs = <<>> THEN maps
    ELSE TickerRows(TickerParty(TickerParty(maps, Head(rs).source), Head(rs).target), Tail(rs))

build_pilot_ticker_maps(rs) ==
    TickerRows([pilot_to_corp |-> EmptyDict, pilot_to_all |-> EmptyDict], rs)

\* One (row, side) step of fill_missing_corps_from_pilot_map.
FillCorpParty(party, pilot_to_corp) ==
    IF _nk(party.corp) # <<>> THEN party
    ELSE IF _nk(party.pilot) # <<>> /\ _nk(party.pilot) \in DOMAIN pilot_to_corp
         THEN [party EXCEPT !.corp = pilot_to_corp[_nk(party.pilot)]]
         ELSE party

fill_missing_corps_from_pilot_map(rs, pilot_to_corp) ==
    [i \in 1..Len(rs) |->
        [rs[i] EXCEPT !.source = FillCorpParty(@, pilot_to_corp),
                      !.target = FillCorpParty(@, pilot_to_corp)]]

update_affiliation_db(aff_db, corp_in, alliance_in, ts) ==
    LET corp == Strip(corp_in)
        alliance == Strip(alliance_in)
    IN  IF corp = <<>> \/ alliance = <<>> THEN aff_db
        ELSE IF corp \notin DOMAIN aff_db
             THEN DictPut(aff_db, corp, AffiliationRecord(alliance, ts, ts))
             ELSE [aff_db EXCEPT ![corp] = AffiliationRecord(alliance, @.first_seen, ts)]

\* One (row, side) step of fill_alliance_from_aff_db.
FillAllianceParty(party, aff_db) ==
    IF Strip(party.alliance) = <<>>
       /\ Strip(party.corp) # <<>>
       /\ Strip(party.corp) \in DOMAIN aff_db
    THEN [party EXCEPT !.alliance = aff_db[Strip(party.corp)].alliance]
    ELSE party

fill_alliance_from_aff_db(rs, aff_db) ==
    [i \in 1..Len(rs) |->
        [rs[i] EXCEPT !.source = FillAllianceParty(@, aff_db),
                      !.target = FillAllianceParty(@, aff_db)]]

----------------------------------------------------------------------------
(* esi.py: the external lookup.  The network is a record net that fixes,   *)
(* for each endpoint, how a request ends ("ok", "non200", "error": the     *)
(* call raises) and what the directory knows.  io carries the cache and    *)
(* the log of requests and sleeps.                                         *)

EmptyCache ==
    [character_ids |-> EmptyDict, corp_info |-> EmptyDict, pilot_alliance |-> EmptyDict,
     type_ids |-> EmptyDict, ship_meta_by_name |-> EmptyDict,
     module_meta_by_name |-> EmptyDict]

Request(endpoint, name, id) ==
    [kind |-> "request", endpoint |-> endpoint, name |-> name, id |-> id]
Sleep == [kind |-> "sleep", endpoint |-> "", name |-> <<>>, id |-> 0]

Logged(io, events) == [io EXCEPT !.log = @ \o events]

\* The directory: the character id of a name (0: no such character), the
\* corporation of a character, the ticker and alliance of a corporation
\* (0: none) and the ticker of an alliance.
CharIdOf(name) ==
    CASE name = <<"a", "l">> -> 1
      [] name = <<"H", "o", "b", "g", "o", "b", "l", "i", "n", " ", "I", "I">> -> 2
      [] OTHER -> 0
CorpIdOf(char_id) == 10 + char_id
CorpTickerOf(corp_id) == IF corp_id = 11 THEN CorpC1 ELSE CorpC2
AllianceIdOf(net, corp_id) == IF net.has_alliance THEN 100 + corp_id ELSE 0
AllianceTickerOf(alliance_id) == IF alliance_id = 111 THEN AllianceA2 ELSE AllianceA3

esi_get_character_id(name_in, io, net) ==
    LET name == Strip(name_in) IN
    IF name = <<>> THEN [value |-> 0, io |-> io]
    ELSE IF name \in DOMAIN io.cache.character_ids
    THEN [value |-> io.cache.character_ids[name], io |-> io]
    ELSE
    LET req == Request("ids", name, 0)
        found == net.ids = "ok" /\ CharIdOf(name) # 0
        id == IF found THEN CharIdOf(name) ELSE 0
        stored == [io EXCEPT !.cache.character_ids = DictPut(@, name, id)]
    IN  [value |-> id,
         io |-> Logged(stored, IF net.ids = "ok" THEN <<req, Sleep>> ELSE <<req>>)]

esi_get_alliance_ticker(alliance_id, io, net) ==
    LET req == Request("alliance", <<>>, alliance_id) IN
    IF net.alliance = "error" THEN [value |-> <<>>, io |-> Logged(io, <<req>>)]
    ELSE IF net.alliance = "non200" THEN [value |-> <<>>, io |-> Logged(io, <<req, Sleep>>)]
    ELSE [value |-> Strip(AllianceTickerOf(alliance_id)), io |-> Logged(io, <<req, Sleep>>)]

\* The end of esi_get_corp_ticker_and_alliance_ticker once the alliance
\* ticker all (a value and the io it left) is known: cache, sleep, return.
CorpInfoFetched(corp_id, corp_ticker, all) ==
    [ticker |-> corp_ticker,
     alliance_ticker |-> all.value,
     io |-> Logged([all.io EXCEPT !.cache.corp_info =
                       DictPut(@, corp_id, [ticker |-> corp_ticker, alliance_ticker |-> all.value])],
                   <<Sleep>>)]

esi_get_corp_ticker_and_alliance_ticker(corp_id, io, net) ==
    IF corp_id \in DOMAIN io.cache.corp_info
    THEN [ticker |-> io.cache.corp_info[corp_id].ticker,
          alliance_ticker |-> io.cache.corp_info[corp_id].alliance_ticker,
          io |-> io]
    ELSE IF net.corporation # "ok"
    THEN [ticker |-> <<>>, alliance_ticker |-> <<>>,
          io |-> Logged([io EXCEPT !.cache.corp_info =
                            DictPut(@, corp_id, [ticker |-> <<>>, alliance_ticker |-> <<>>])],
                        <<Request("corporation", <<>>, corp_id)>>)]
    ELSE CorpInfoFetched(corp_id, Strip(CorpTickerOf(corp_id)),
            IF AllianceIdOf(net, corp_id) # 0
            THEN esi_get_alliance_ticker(AllianceIdOf(net, corp_id),
                                         Logged(io, <<Request("corporation", <<>>, corp_id)>>), net)
            ELSE [value |-> <<>>, io |-> Logged(io, <<Request("corporation", <<>>, corp_id)>>)])

\* cache["pilot_alliance"][pilot_name] = v
PilotAllianceCached(io, pilot_name, v) ==
    [io EXCEPT !.cache.pilot_alliance = DictPut(@, pilot_name, v)]

\* The end of esi_get_pilot_alliance_and_corpinfo once the corporation's
\* tickers c are known.
PilotResolved(pilot_name, c) ==
    [alliance |-> c.alliance_ticker, corp |-> c.ticker,
     io |-> Logged(PilotAllianceCached(c.io, pilot_name, c.alliance_ticker), <<Sleep>>)]

\* esi_get_pilot_alliance_and_corpinfo from the character id ch (a value
\* and the io it left) on.
PilotFromCharacter(pilot_name, ch, net) ==
    IF ch.value = 0
    THEN [alliance |-> <<>>, corp |-> <<>>, io |-> PilotAllianceCached(ch.io, pilot_name, <<>>)]
    ELSE IF net.character = "error"
    THEN [alliance |-> <<>>, corp |-> <<>>,
          io |-> PilotAllianceCached(Logged(ch.io, <<Request("character", <<>>, ch.value)>>),
                                     pilot_name, <<>>)]
    ELSE IF net.character = "non200" \/ ~net.has_corp
    THEN [alliance |-> <<>>, corp |-> <<>>,
          io |-> Logged(PilotAllianceCached(
                            Logged(ch.io, <<Request("character", <<>>, ch.value)>>),
                            pilot_name, <<>>),
                        <<Sleep>>)]
    ELSE PilotResolved(pilot_name,
            esi_get_corp_ticker_and_alliance_ticker(
                CorpIdOf(ch.value),
                Logged(ch.io, <<Request("character", <<>>, ch.value)>>), net))

\* Variant of PilotLookup: the pilot_alliance cache is not consulted.
PilotLookup_uncached(pilot_name, io, net) ==
    IF pilot_name = <<>> THEN [alliance |-> <<>>, corp |-> <<>>, io |-> io]
    ELSE PilotFromCharacter(pilot_name, esi_get_character_id(pilot_name, io, net), net)

\* Returns (alliance_ticker, corp_ticker) and the io it leaves; pilot_name
\* is the stripped name.
PilotLookup(pilot_name, io, net) ==
    IF pilot_name = <<>> THEN [alliance |-> <<>>, corp |-> <<>>, io |-> io]
    ELSE IF pilot_name \in DOMAIN io.cache.pilot_alliance
    THEN [alliance |-> io.cache.pilot_alliance[pilot_name], corp |-> <<>>, io |-> io]
    ELSE PilotFromCharacter(pilot_name, esi_get_character_id(pilot_name, io, net), net)

esi_get_pilot_alliance_and_corpinfo(pilot_name, io, net) ==
    PilotLookup(Strip(pilot_name), io, net)

\* Variant of ok_to_lookup_pilot: the reference item names are not consulted.
ok_to_lookup_pilot_always(name, item_names_lower) == TRUE

ok_to_lookup_pilot(name, item_names_lower) == Lower(Strip(name)) \notin item_names_lower

\* One (row, side) step of the loop that collects the names to look up.
NeedParty(need, party, item_names_lower) ==
    LET p == Strip(party.pilot) IN
    IF /\ p # <<>>
       /\ Strip(party.alliance) = <<>>
       /\ ok_to_lookup_pilot(p, item_names_lower)
       /\ ~ \E i \in 1..Len(need) : need[i] = p
    THEN Append(need, p)
    ELSE need

RECURSIVE NeedRows(_, _, _)
NeedRows(need, rs, item_names_lower) ==
    IF rs = <<>> THEN need
    ELSE NeedRows(NeedParty(NeedParty(need, Head(rs).source, item_names_lower),
                            Head(rs).target, item_names_lower),
                  Tail(rs), item_names_lower)

\* One turn of the loop over need, once the lookup r of the pilot is back:
\* acc carries resolved, learned, aff_esi and io.
ResolveStep(acc, pilot, r, now) ==
    [resolved |-> DictPut(acc.resolved, pilot, r.alliance),
     learned |-> IF r.corp # <<>> /\ r.alliance # <<>> /\ r.corp \notin DOMAIN acc.aff_esi
                 THEN acc.learned + 1 ELSE acc.learned,
     aff_esi |-> IF r.corp = <<>> \/ r.alliance = <<>> THEN acc.aff_esi
                 ELSE IF r.corp \notin DOMAIN acc.aff_esi
                 THEN DictPut(acc.aff_esi, r.corp, AffiliationRecord(r.alliance, now, now))
                 ELSE [acc.aff_esi EXCEPT ![r.corp] =
                          AffiliationRecord(r.alliance, @.first_seen, now)],
     io |-> r.io]

RECURSIVE ResolveLoop(_, _, _, _)
ResolveLoop(need, acc, net, now) ==
    IF need = <<>> THEN acc
    ELSE ResolveLoop(Tail(need),
            ResolveStep(acc, Head(need),
                        esi_get_pilot_alliance_and_corpinfo(Head(need), acc.io, net), now),
            net, now)

\* One (row, side) step of the final fill loop.
EsiFillParty(party, resolved) ==
    LET p == Strip(party.pilot) IN
    IF p # <<>> /\ Strip(party.alliance) = <<>> /\ DictGet(resolved, p, <<>>) # <<>>
    THEN [party EXCEPT !.alliance = resolved[p]]
    ELSE party

\* The final fill loop, once the loop over need has left acc.
EsiFillRows(rs, acc) ==
    [rows |-> [i \in 1..Len(rs) |->
                 [rs[i] EXCEPT !.source = EsiFillParty(@, acc.resolved),
                               !.target = EsiFillParty(@, acc.resolved)]],
     io |-> acc.io, aff_esi |-> acc.aff_esi, learned |-> acc.learned]

EnrichNeeded(rs, need, io, aff_esi, net, now) ==
    IF need = <<>> THEN [rows |-> rs, io |-> io, aff_esi |-> aff_esi, learned |-> 0]
    ELSE EsiFillRows(rs,
            ResolveLoop(need,
                [resolved |-> EmptyDict, learned |-> 0, aff_esi |-> aff_esi, io |-> io],
                net, now))

\* Returns the rows, io and aff_esi it leaves, and the learned count.
enrich_missing_alliances_via_esi(rs, io, item_names_lower, aff_esi, net, now) ==
    EnrichNeeded(rs, NeedRows(<<>>, rs, item_names_lower), io, aff_esi, net, now)

----------------------------------------------------------------------------
(* cli.py: the enrichment of one fight's rows, pass by pass.  A context    *)
(* ctx carries the rows, the pilot DB, the two corp->alliance maps, the    *)
(* io of the lookup and the clock; env carries what the passes only read.  *)

\* Variant of PassPersistent: the backfill is called with fill_ship=True.
PassPersistent_fill_ship(ctx, env) ==
    [ctx EXCEPT !.rows = backfill_rows_from_db(ctx.pilot_db, @, TRUE)]

\* backfill_rows_from_db(pilot_db, rows, fill_ship=False)
PassPersistent(ctx, env) ==
    [ctx EXCEPT !.rows = backfill_rows_from_db(ctx.pilot_db, @, FALSE)]

\* tmp_db learned from the fight's rows, then backfilled into them
PassInFight(ctx, env) ==
    LET tmp_db == learn_from_rows_excluding_items(EmptyDict, ctx.rows, env.item_names_lower, TRUE)
    IN  [ctx EXCEPT !.rows = backfill_rows_from_db(tmp_db, @, TRUE)]

\* fill_alliance_from_aff_db with aff_log, then with aff_esi
PassAffMaps(ctx, env) ==
    [ctx EXCEPT !.rows = fill_alliance_from_aff_db(fill_alliance_from_aff_db(@, env.aff_log),
                                                   ctx.aff_esi)]

\* What the ESI fallback leaves, once enrich_missing_alliances_via_esi has
\* returned r: the refill when it learned a mapping.
AfterEsi(ctx, r) ==
    [ctx EXCEPT !.rows = IF r.learned > 0 THEN fill_alliance_from_aff_db(r.rows, r.aff_esi)
                         ELSE r.rows,
                !.io = r.io,
                !.aff_esi = r.aff_esi,
                !.now = @ + 1]

\* the ESI fallback
PassEsi(ctx, env) ==
    IF env.no_esi \/ ctx.rows = <<>> THEN ctx
    ELSE AfterEsi(ctx, enrich_missing_alliances_via_esi(ctx.rows, ctx.io, env.item_names_lower,
                                                        ctx.aff_esi, env.net, ctx.now))

\* Variant of PassPilotCorp: the corps are filled, the alliances are not
\* refilled from the maps.
PassPilotCorp_no_refill(ctx, env) ==
    [ctx EXCEPT !.rows =
        fill_missing_corps_from_pilot_map(@, build_pilot_ticker_maps(@).pilot_to_corp)]

\* pilot->corp fill, and the alliance refill when it filled a corp
PassPilotCorp(ctx, env) ==
    LET maps == build_pilot_ticker_maps(ctx.rows)
        filled == fill_missing_corps_from_pilot_map(ctx.rows, maps.pilot_to_corp)
        filled_corps ==
            \E i \in 1..Len(ctx.rows), side \in SideSet :
                /\ _nk(ctx.rows[i][side].corp) = <<>>
                /\ _nk(ctx.rows[i][side].pilot) # <<>>
                /\ _nk(ctx.rows[i][side].pilot) \in DOMAIN maps.pilot_to_corp
    IN  [ctx EXCEPT !.rows =
            IF filled_corps
            THEN fill_alliance_from_aff_db(fill_alliance_from_aff_db(filled, env.aff_log),
                                           ctx.aff_esi)
            ELSE filled]

\* the final within-fight pass
PassFinalInFight(ctx, env) == PassInFight(ctx, env)

\* the persistent pilot DB learns corp and alliance from the fight's rows
PassLearnPersistent(ctx, env) ==
    [ctx EXCEPT !.pilot_db =
        learn_from_rows_excluding_items(@, ctx.rows, env.item_names_lower, FALSE)]

PassOrder == <<"persistent", "in_fight", "aff_maps", "esi", "pilot_corp", "final", "learn">>

ApplyPass(name, ctx, env) ==
    CASE name = "persistent" -> PassPersistent(ctx, env)
      [] name = "in_fight" -> PassInFight(ctx, env)
      [] name = "aff_maps" -> PassAffMaps(ctx, env)
      [] name = "esi" -> PassEsi(ctx, env)
      [] name = "pilot_corp" -> PassPilotCorp(ctx, env)
      [] name = "final" -> PassFinalInFight(ctx, env)
      [] name = "learn" -> PassLearnPersistent(ctx, env)

\* The passes from position k on, in order.
RECURSIVE EnrichFrom(_, _, _)
EnrichFrom(k, ctx, env) ==
    IF k > Len(PassOrder) THEN ctx
    ELSE EnrichFrom(k + 1, ApplyPass(PassOrder[k], ctx, env), env)

\* The whole enrichment of a fight.
EnrichFight(ctx, env) == EnrichFrom(1, ctx, env)

----------------------------------------------------------------------------
(* parser.py, cli.py: the two passes over the log lines and the fights.    *)
(* A log line carries the listener of its file, its time, its kind         *)
(* ("disembark", "rep_by", "damage_to", "damage_from") and the entity it   *)
(* names.  A repair line names the module Rep and a damage line the module *)
(* Gun; a ship left blank is written "( )" in a damage line.               *)

LogLine(listener, t, kind, entity) ==
    [listener |-> listener, t |-> t, kind |-> kind, entity |-> entity]

NoParty == Party(<<>>, <<>>, <<>>, <<>>)

\* One line of pass 1.
Pass1Line(timeline, line) ==
    IF line.kind = "disembark"
    THEN (IF line.listener # <<>>
          THEN add_ship_event(timeline, line.listener, line.t, None, <<>>, <<>>)
          ELSE timeline)
    ELSE IF line.entity.ship_type = <<>> THEN timeline
    ELSE IF line.kind = "rep_by"
    THEN add_ship_event(timeline, line.entity.pilot, line.t, line.entity.ship_type,
                        line.entity.alliance, line.entity.corp)
    ELSE add_ship_event(timeline, line.entity.pilot, line.t, line.entity.ship_type,
                        <<>>, line.entity.corp)

RECURSIVE Pass1Timeline(_, _)
Pass1Timeline(timeline, lines) ==
    IF lines = <<>> THEN timeline
    ELSE Pass1Timeline(Pass1Line(timeline, Head(lines)), Tail(lines))

\* The corp->alliance learning of pass 1: the rep lines carry both tickers.
RECURSIVE Pass1AffLog(_, _)
Pass1AffLog(aff_db, lines) ==
    IF lines = <<>> THEN aff_db
    ELSE Pass1AffLog(
            IF Head(lines).kind = "rep_by"
            THEN update_affiliation_db(aff_db, Head(lines).entity.corp,
                                       Head(lines).entity.alliance, Head(lines).t)
            ELSE aff_db,
            Tail(lines))

build_ship_timeline_and_afflog(lines, base_aff_log) ==
    [timeline |-> finalize_timeline(Pass1Timeline(EmptyTimeline, lines)),
     aff_log |-> Pass1AffLog(base_aff_log, lines)]

\* The dataset a line's row is appended to, and the module the line names.
DatasetOf(kind) ==
    CASE kind = "rep_by" -> "repairs_received"
      [] kind = "damage_to" -> "damage_done"
      [] kind = "damage_from" -> "damage_received"

ModuleOf(kind) == IF kind = "rep_by" THEN <<"R", "e", "p">> ELSE <<"G", "u", "n">>

\* The row pass 2 makes of a line: the listener's side takes ship, alliance
\* and corp from the whole timeline.  The field dataset names the list of
\* main the row is in (main writes it on the row in the loop over the
\* fights).
RowOfLine(timeline, line) ==
    LET state == lookup_ship(timeline, line.listener, line.t)
        own == Party(line.listener, state[3], state[2], state[1])
        other == IF line.kind = "rep_by" THEN line.entity
                 ELSE [line.entity EXCEPT !.alliance = <<>>]
    IN  [timestamp |-> TsText(line.t),
         log_listener |-> line.listener,
         source |-> IF line.kind = "damage_to" THEN own ELSE other,
         target |-> IF line.kind = "damage_to" THEN other ELSE own,
         dataset |-> DatasetOf(line.kind),
         module |-> ModuleOf(line.kind)]

RECURSIVE RowsOfKind(_, _, _)
RowsOfKind(timeline, lines, kind) ==
    IF lines = <<>> THEN <<>>
    ELSE (IF Head(lines).kind = kind /\ Head(lines).listener # <<>>
          THEN <<RowOfLine(timeline, Head(lines))>>
          ELSE <<>>) \o RowsOfKind(timeline, Tail(lines), kind)

\* parse_log_file_to_rows over the log files, and the datasets put end to
\* end: repairs received, damage done, damage received.
parse_log_file_to_rows(lines, timeline) ==
    RowsOfKind(timeline, lines, "rep_by")
        \o RowsOfKind(timeline, lines, "damage_to")
        \o RowsOfKind(timeline, lines, "damage_from")

\* Variant of ApplyListenerParty: the side need not be the listener's.
ApplyListenerParty_any_pilot(r, party, tl) ==
    LET listener == Strip(r.log_listener)
        pilot == Strip(party.pilot)
        state == lookup_ship(tl, pilot, _parse_ts(r.timestamp))
    IN  IF _parse_ts(r.timestamp) = NoTime \/ listener = <<>> THEN party
        ELSE IF pilot = <<>> THEN party
        ELSE [party EXCEPT !.ship_type = IF state[1] # <<>> THEN state[1] ELSE @,
                           !.alliance = IF state[2] # <<>> THEN state[2] ELSE @,
                           !.corp = IF state[3] # <<>> THEN state[3] ELSE @]

\* One (row, side) step of _apply_listener_state.
ApplyListenerParty(r, party, tl) ==
    LET listener == Strip(r.log_listener)
        pilot == Strip(party.pilot)
        state == lookup_ship(tl, pilot, _parse_ts(r.timestamp))
    IN  IF _parse_ts(r.timestamp) = NoTime \/ listener = <<>> THEN party
        ELSE IF pilot = <<>> \/ pilot # listener THEN party
        ELSE [party EXCEPT !.ship_type = IF state[1] # <<>> THEN state[1] ELSE @,
                           !.alliance = IF state[2] # <<>> THEN state[2] ELSE @,
                           !.corp = IF state[3] # <<>> THEN state[3] ELSE @]

_apply_listener_state(rs, tl) ==
    [i \in 1..Len(rs) |->
        [rs[i] EXCEPT !.source = ApplyListenerParty(rs[i], @, tl),
                      !.target = ApplyListenerParty(rs[i], @, tl)]]

\* npc.build_known_players: the normalised names of the pilots that some
\* row of rs shows with a corp or an alliance ticker.
build_known_players(rs) ==
    { _norm_name(rs[i][side].pilot) :
        <<i, side>> \in { x \in (1..Len(rs)) \X SideSet :
                            Truthy(rs[x[1]][x[2]].corp) \/ Truthy(rs[x[1]][x[2]].alliance) } }
        \ {<<>>}

looks_like_drone_or_item(name, item_names_lower) ==
    looks_like_drone(name, item_names_lower) \/ looks_like_charge(name, item_names_lower)

_looks_like_npc(party, item_names_lower, known_players) ==
    IF Truthy(party.corp) \/ Truthy(party.alliance) THEN FALSE
    ELSE IF _norm_name(party.pilot) # <<>> /\ _norm_name(party.pilot) \in known_players
    THEN FALSE
    ELSE TRUE

classify_party_kind(party, item_names_lower, known_players) ==
    IF looks_like_drone(party.pilot, item_names_lower) THEN "drone"
    ELSE IF looks_like_charge(party.pilot, item_names_lower) THEN "charge"
    ELSE IF _looks_like_npc(party, item_names_lower, known_players) THEN "npc"
    ELSE "player"

\* One (row, side) step of _annotate_fight_and_entity_kinds: the listener is
\* a player unless its name reads as a drone or an item.
AnnotateParty(r, party, item_names_lower, known_players) ==
    IF /\ r.log_listener # <<>>
       /\ Strip(party.pilot) = Strip(r.log_listener)
       /\ ~looks_like_drone_or_item(party.pilot, item_names_lower)
    THEN "player"
    ELSE classify_party_kind(party, item_names_lower, known_players)

\* The kinds given to the two sides of each row; the known players are those
\* of the rows handed in.
_annotate_fight_and_entity_kinds(rs, item_names_lower) ==
    LET known_players == build_known_players(rs)
    IN  [i \in 1..Len(rs) |->
            [source |-> AnnotateParty(rs[i], rs[i].source, item_names_lower, known_players),
             target |-> AnnotateParty(rs[i], rs[i].target, item_names_lower, known_players)]]

Timestamps(rs) == [i \in 1..Len(rs) |-> rs[i].timestamp]

----------------------------------------------------------------------------
(* esi.py, ship_meta.py, module_meta.py: the ship and module columns.  The *)
(* SDE index holds the reference item names, each with its type and its    *)
(* group, and the group table names every group of the index.  The         *)
(* directory behind /universe/ids lists characters only: no name is an     *)
(* inventory type there, so a type id comes from the SDE alone and the     *)
(* requests for type and group info (ship_meta.py:205-223,                 *)
(* module_meta.py:98-103) are not reached.                                 *)

\* esi_get_type_id: None (0) is cached under the stripped name; the sleep
\* follows an answer with status 200 only.
esi_get_type_id(name_in, io, net) ==
    LET name == Strip(name_in) IN
    IF name = <<>> THEN [value |-> 0, io |-> io]
    ELSE IF name \in DOMAIN io.cache.type_ids
    THEN [value |-> io.cache.type_ids[name], io |-> io]
    ELSE
    LET req == Request("ids", name, 0)
        stored == [io EXCEPT !.cache.type_ids = DictPut(@, name, 0)]
    IN  [value |-> 0,
         io |-> Logged(stored, IF net.ids = "ok" THEN <<req, Sleep>> ELSE <<req>>)]

\* The group name invGroups has for a name of the SDE index: the drones of
\* the index are in the group Combat Drone, the rest are frigates.
SdeGroupNameOf(key) ==
    IF \E pref \in _DRONE_PREFIXES : StartsWith(key, pref)
    THEN <<"C", "o", "m", "b", "a", "t", " ", "D", "r", "o", "n", "e">>
    ELSE <<"F", "r", "i", "g", "a", "t", "e">>

\* _fallback_rarity_from_name: the rarity read from the name of a hull
\* whose type has no meta group.
_fallback_rarity_from_name(ship_name) ==
    LET n == Lower(Strip(ship_name))
        has(k) == Infix(k, n)
    IN  IF \/ has(<<"n", "a", "v", "y", " ", "i", "s", "s", "u", "e">>)
           \/ has(<<"f", "l", "e", "e", "t", " ", "i", "s", "s", "u", "e">>)
           \/ has(<<"s", "t", "a", "t", "e", " ", "i", "s", "s", "u", "e">>)
           \/ has(<<"i", "m", "p", "e", "r", "i", "a", "l", " ", "n", "a", "v", "y">>)
        THEN <<"N", "a", "v", "y">>
        ELSE IF /\ has(<<"i", "s", "s", "u", "e">>)
                /\ ~has(<<"n", "a", "v", "y">>)
        THEN <<"F", "a", "c", "t", "i", "o", "n">>
        ELSE <<"S", "t", "a", "n", "d", "a", "r", "d">>

\* ShipMetaResolver.resolve_extended: the io it leaves.  The name cache is
\* keyed by the lowered name; a name the SDE index lacks is asked of ESI
\* when ESI is enabled and is left with the class UNKNOWN.  The meta tables
\* of the SDE hold no type, so the tech is T1 and the rarity comes from the
\* name.
resolve_extended(ship_name_in, io, net, enable_esi, item_names_lower) ==
    LET ship_name == Strip(ship_name_in)
        key == Lower(ship_name)
    IN  IF ship_name = <<>> THEN io
        ELSE IF key \in DOMAIN io.cache.ship_meta_by_name THEN io
        ELSE LET local == key \in item_names_lower
                 asked == IF ~local /\ enable_esi
                          THEN esi_get_type_id(ship_name, io, net).io
                          ELSE io
             IN  [asked EXCEPT !.cache.ship_meta_by_name =
                     DictPut(@, key,
                             [ship_class |-> IF local THEN SdeGroupNameOf(key)
                                             ELSE <<"U", "N", "K", "N", "O", "W", "N">>,
                              ship_tech |-> <<"T", "1">>,
                              hull_rarity |-> _fallback_rarity_from_name(ship_name)])]

\* ModuleMetaResolver.resolve: the io it leaves.
ModuleMetaResolve(module_name_in, io, net, enable_esi, item_names_lower) ==
    LET module_name == Strip(module_name_in)
        key == Lower(module_name)
    IN  IF module_name = <<>> THEN io
        ELSE IF key \in DOMAIN io.cache.module_meta_by_name THEN io
        ELSE LET local == key \in item_names_lower
                 asked == IF ~local /\ enable_esi
                          THEN esi_get_type_id(module_name, io, net).io
                          ELSE io
             IN  [asked EXCEPT !.cache.module_meta_by_name =
                     DictPut(@, key,
                             [module_tech_level |-> IF local THEN <<"T", "1">> ELSE <<>>,
                              module_meta_level |-> <<>>,
                              module_meta_group |-> <<>>])]

\* One turn of the loop of _annotate_ship_meta: the ship of the source, the
\* ship of the target, then the module.
AnnotateShipMetaRow(r, io, net, enable_esi, item_names_lower) ==
    ModuleMetaResolve(r.module,
        resolve_extended(r.target.ship_type,
            resolve_extended(r.source.ship_type, io, net, enable_esi, item_names_lower),
            net, enable_esi, item_names_lower),
        net, enable_esi, item_names_lower)

\* _annotate_ship_meta: the io it leaves.
RECURSIVE _annotate_ship_meta(_, _, _, _, _)
_annotate_ship_meta(rs, io, net, enable_esi, item_names_lower) ==
    IF rs = <<>> THEN io
    ELSE _annotate_ship_meta(Tail(rs),
            AnnotateShipMetaRow(Head(rs), io, net, enable_esi, item_names_lower),
            net, enable_esi, item_names_lower)

----------------------------------------------------------------------------
(* npc.py: the split of a dataset by the kind of the other party, and the  *)
(* files of a fight.                                                       *)

Buckets == <<"players", "npc", "drones", "charges">>

\* The datasets in the order main writes them, and the side of the other
\* party in each: the target of what the listener does, the source of what
\* the listener receives.
Datasets == <<"repairs_received", "damage_done", "damage_received">>

OtherPrefix(dataset) == IF dataset = "damage_done" THEN "target" ELSE "source"

\* The first pass of split_rows_players_npc_drones_charges: the other
\* parties that some row of the dataset shows with a ticker.
KnownOthers(rs, other_prefix) ==
    { _norm_name(rs[i][other_prefix].pilot) :
        i \in { x \in 1..Len(rs) :
                  Truthy(rs[x][other_prefix].corp) \/ Truthy(rs[x][other_prefix].alliance) } }
        \ {<<>>}

\* The copy of the row whose other party has its own name for a ship type.
NamedAsShip(r, other_prefix) ==
    [r EXCEPT ![other_prefix].ship_type = r[other_prefix].pilot]

\* classify_other_party: the bucket and the row that is put into it.
classify_other_party(r, other_prefix, item_names_lower, known_players) ==
    LET party == r[other_prefix]
        unnamed == party.ship_type = <<>> /\ party.pilot # <<>>
    IN  IF looks_like_drone(party.pilot, item_names_lower)
        THEN [bucket |-> "drones",
              row |-> IF unnamed THEN NamedAsShip(r, other_prefix) ELSE r]
        ELSE IF looks_like_charge(party.pilot, item_names_lower)
        THEN [bucket |-> "charges",
              row |-> IF unnamed THEN NamedAsShip(r, other_prefix) ELSE r]
        ELSE IF ~_looks_like_npc(party, item_names_lower, known_players)
        THEN [bucket |-> "players", row |-> r]
        ELSE [bucket |-> "npc",
              row |-> IF unnamed /\ _norm_name(party.pilot) \in item_names_lower
                      THEN NamedAsShip(r, other_prefix) ELSE r]

\* The rows of one bucket, in the order of the dataset.
RECURSIVE BucketRows(_, _, _, _, _)
BucketRows(rs, bucket, other_prefix, item_names_lower, known_players) ==
    IF rs = <<>> THEN <<>>
    ELSE LET c == classify_other_party(Head(rs), other_prefix, item_names_lower,
                                       known_players)
         IN  (IF c.bucket = bucket THEN <<c.row>> ELSE <<>>)
                \o BucketRows(Tail(rs), bucket, other_prefix, item_names_lower,
                              known_players)

split_rows_players_npc_drones_charges(rs, other_prefix, item_names_lower) ==
    [b \in {Buckets[n] : n \in 1..Len(Buckets)} |->
        BucketRows(rs, b, other_prefix, item_names_lower, KnownOthers(rs, other_prefix))]

InDataset(rs, dataset) == SelectSeq(rs, LAMBDA r : r.dataset = dataset)

\* The row as a file of the fight holds it: the row the split of its dataset
\* puts into a bucket.
WrittenForm(rs, i, item_names_lower) ==
    LET other_prefix == OtherPrefix(rs[i].dataset) IN
    classify_other_party(rs[i], other_prefix, item_names_lower,
                         KnownOthers(InDataset(rs, rs[i].dataset), other_prefix)).row

WrittenRows(rs, item_names_lower) ==
    [i \in 1..Len(rs) |-> WrittenForm(rs, i, item_names_lower)]

\* The files of a fight: <<dataset, bucket>> stands for the file
\* <dataset>_<bucket>.csv of the fight's folder, with the rows written to it.
WrittenFiles(rs, item_names_lower) ==
    [f \in {Datasets[n] : n \in 1..Len(Datasets)} \X {Buckets[n] : n \in 1..Len(Buckets)} |->
        split_rows_players_npc_drones_charges(InDataset(rs, f[1]), OtherPrefix(f[1]),
                                              item_names_lower)[f[2]]]

\* The rows of all_combat_rows that the window selects are the fight's rows
\* themselves: what the turn writes on the fight's rows stands in
\* all_combat_rows after it.
RECURSIVE WrittenInPlace(_, _, _)
WrittenInPlace(all_rows, window, fight_rows) ==
    IF all_rows = <<>> THEN <<>>
    ELSE IF InWindow(Head(all_rows).timestamp, window)
    THEN <<Head(fight_rows)>> \o WrittenInPlace(Tail(all_rows), window, Tail(fight_rows))
    ELSE <<Head(all_rows)>> \o WrittenInPlace(Tail(all_rows), window, fight_rows)

----------------------------------------------------------------------------
(* Pass 1 builds the ship timeline, pass 2 and the fights look it up. *)

\* The names under which sightings of the pilot arrive, and the names that
\* are looked up: with padding, and a pilot that was never sighted.
TlPilotInputs == {<<"a", "l">>, <<"a", "l", " ">>}
TlPilotQueries == {<<" ", "a", "l">>, <<"b", "o">>}

\* What a sighting can carry: a disembark boundary, or a ship with the
\* tickers parsed beside it.
TlSightings ==
    { [ship |-> None, alliance |-> <<>>, corp |-> <<>>],
      [ship |-> Rifter, alliance |-> TickerALL, corp |-> <<"C", "R", "P">>],
      [ship |-> Punisher, alliance |-> <<>>, corp |-> <<>>] }

RECURSIVE SumLen(_, _)
SumLen(timeline, keys) ==
    IF keys = {} THEN 0
    ELSE LET k == CHOOSE x \in keys : TRUE
         IN  Len(timeline[k]) + SumLen(timeline, keys \ {k})

EventCount(timeline) == SumLen(timeline, DOMAIN timeline)

NoQuery == [pilot |-> <<>>, t |-> 0 - 1]

TlIdle ==
    /\ ship_timeline = EmptyTimeline
    /\ tl_final = FALSE
    /\ tl_query = NoQuery
    /\ tl_result = Unknown

SegIdle ==
    /\ seg_rows = <<>>
    /\ seg_gap = 0
    /\ seg_out = <<>>
    /\ seg_done = FALSE

\* A line of pass 1 that records a ship state: a disembark line, or a line
\* that names an entity.  Where the entity is parsed with its tickers the
\* line hands them to update_affiliation_db before it adds the event; the
\* other lines have no alliance to hand over, and update_affiliation_db
\* leaves the map alone when a ticker is empty.
AddShipEvent ==
    /\ ~tl_final
    /\ EventCount(ship_timeline) < MaxEvents
    /\ \E pilot \in TlPilotInputs, t \in 0..MaxT, s \in TlSightings :
          /\ aff_log' = update_affiliation_db(aff_log, s.corp, s.alliance, t)
          /\ ship_timeline' = add_ship_event(ship_timeline, pilot, t, s.ship, s.alliance, s.corp)
    /\ UNCHANGED <<tl_final, tl_query, tl_result>>
    /\ UNCHANGED <<fight_combat_rows, pilot_db, aff_esi_db, esi_io, esi_net, item_names,
                   no_esi, clock, en_run, en_pc, rows_at_start, rows_after_first>>

\* The end of pass 1.
FinalizeTimeline ==
    /\ ~tl_final
    /\ ship_timeline' = finalize_timeline(ship_timeline)
    /\ tl_final' = TRUE
    /\ UNCHANGED <<tl_query, tl_result>>

LookupShip ==
    /\ tl_final
    /\ \E pilot \in TlPilotQueries, t \in 0..MaxT :
          /\ tl_query' = [pilot |-> pilot, t |-> t]
          /\ tl_result' = lookup_ship(ship_timeline, pilot, t)
    /\ UNCHANGED <<ship_timeline, tl_final>>

----------------------------------------------------------------------------
(* The enrichment of one fight, pass by pass, run MaxRuns times over the   *)
(* same rows with the DBs, maps and cache left as the run before left them *)

Al == <<"a", "l">>
AlZw == <<"a", "l", "zw">>
Hob == <<"H", "o", "b", "g", "o", "b", "l", "i", "n", " ", "I", "I">>

\* The parties a line can name: the pilot with nothing beside the name, with
\* a corp and a ship, with an alliance and a corp made of an invisible
\* character, with an invisible character in the name and another corp; the
\* drone-like name with nothing, and with a corp.
EnParties ==
    { Party(Al, <<>>, <<>>, <<>>),
      Party(Al, CorpC1, <<>>, ShipS1),
      Party(Al, <<"zw">>, AllianceA1, <<>>),
      Party(AlZw, CorpC2, <<>>, <<>>),
      Party(Hob, <<>>, <<>>, <<>>),
      Party(Hob, CorpC1, <<>>, <<>>) }

EnRows == {Row(TsText(0), <<>>, s, t) : s \in EnParties, t \in EnParties}

EnRowLists == UNION {[1..k -> EnRows] : k \in 1..MaxFightRows}

\* The persistent pilot DB as loaded: empty, or remembering the pilot, with
\* the ship type that the file held for it.
EnPilotDbs == {EmptyDict, [k \in {Al} |-> PilotInfo(CorpC2, AllianceA2, ShipS9)]}

\* The corp->alliance map learned from the logs in pass 1.
EnAffLogs == {EmptyDict, [k \in {CorpC1} |-> AffiliationRecord(AllianceA2, 0, 0)]}

Net(ids, character, corporation, alliance, has_corp, has_alliance) ==
    [ids |-> ids, character |-> character, corporation |-> corporation,
     alliance |-> alliance, has_corp |-> has_corp, has_alliance |-> has_alliance]

NetOk == Net("ok", "ok", "ok", "ok", TRUE, TRUE)
NetCharacterError == Net("ok", "error", "ok", "ok", TRUE, TRUE)

\* The reference item names: none loaded, loaded with the drone's name,
\* loaded without it.
NoItemNames == {}
ItemNamesWithDrone == {Lower(Hob)}
ItemNamesWithoutDrone == {<<"r", "i", "f", "t", "e", "r">>}

Setting(off, net, names) == [no_esi |-> off, net |-> net, item_names_lower |-> names]

\* How a run is set up: the lookup switched off, answering in full, or
\* failing at the character request, against the reference item names.
EnSettings ==
    { Setting(TRUE, NetOk, NoItemNames),
      Setting(FALSE, NetOk, NoItemNames),
      Setting(FALSE, NetOk, ItemNamesWithDrone),
      Setting(FALSE, NetOk, ItemNamesWithoutDrone),
      Setting(FALSE, NetCharacterError, NoItemNames) }

EmptyIo == [cache |-> EmptyCache, log |-> <<>>]

EnIdle ==
    /\ fight_combat_rows = <<>>
    /\ pilot_db = EmptyDict
    /\ aff_log = EmptyDict
    /\ aff_esi_db = EmptyDict
    /\ esi_io = EmptyIo
    /\ esi_net = NetOk
    /\ item_names = {}
    /\ no_esi = TRUE
    /\ clock = 0
    /\ en_run = 0
    /\ en_pc = 0
    /\ rows_at_start = <<>>
    /\ rows_after_first = <<>>

NoWindow == [start |-> 0, end |-> 0 - 1]

RsIdle ==
    /\ tl_window = NoWindow
    /\ tl_restricted = EmptyTimeline

LkIdle == lk_calls = <<>> /\ lk_results = <<>>

AfIdle == af_obs = <<>>

PsIdle ==
    /\ ps_read = <<>>
    /\ ps_listener = <<>>
    /\ ps_out = <<>>
    /\ ps_others = <<>>
    /\ ps_pc = "idle"
    /\ p1_read = <<>>
    /\ p1_listener = <<>>
    /\ p1_pc = "idle"

NoCall == <<>>

FnIdle == fn_args = NoCall /\ fn_result = NoCall

CliIdle == cli_args = <<>> /\ cli_pc = "idle" /\ cli_prompts = <<>>

AuxIdle == RsIdle /\ LkIdle /\ AfIdle /\ PsIdle /\ FnIdle /\ CliIdle

PlIdle ==
    /\ log_lines = <<>>
    /\ all_combat_rows = <<>>
    /\ fight_windows = <<>>
    /\ fight_i = 0
    /\ fight_output = <<>>
    /\ pl_pc = "idle"

----------------------------------------------------------------------------
(* The fight segmenter on its own: any rows, any non-negative threshold. *)

DefaultGapMinutes == 15

\* Timestamps around the minute marks, so that gaps of exactly the threshold,
\* one second less and one second more all occur.
SegTimestamps ==
    {TsText(m * SecondsPerMinute + s) : m \in 0..MaxSegMinute, s \in {0, 1}} \cup {BadTs}

SeqsUpTo(S, n) == UNION {[1..k -> S] : k \in 0..n}

\* [T, T+1m, T+20m, T+21m] with T = 0, in order and shuffled.
SegExampleRows ==
    { <<TsText(0), TsText(SecondsPerMinute),
        TsText(20 * SecondsPerMinute), TsText(21 * SecondsPerMinute)>>,
      <<TsText(21 * SecondsPerMinute), TsText(0),
        TsText(20 * SecondsPerMinute), TsText(SecondsPerMinute)>> }

SegInit ==
    /\ TlIdle
    /\ EnIdle
    /\ PlIdle
    /\ AuxIdle
    /\ seg_out = <<>>
    /\ seg_done = FALSE
    /\ \/ /\ seg_rows \in SeqsUpTo(SegTimestamps, MaxSegRows)
          /\ seg_gap \in 0..MaxSegMinute
       \/ /\ seg_rows \in SegExampleRows
          /\ seg_gap = DefaultGapMinutes

SplitRowsIntoFights ==
    /\ ~seg_done
    /\ seg_out' = split_rows_into_fights(seg_rows, seg_gap)
    /\ seg_done' = TRUE
    /\ UNCHANGED <<seg_rows, seg_gap>>

SegNext == SplitRowsIntoFights /\ UNCHANGED <<tlVars, enVars, plVars, auxVars>>

SpecSegmenter == SegInit /\ [][SegNext]_vars

TlNext ==
    \/ AddShipEvent /\ UNCHANGED <<segVars, plVars, auxVars>>
    \/ FinalizeTimeline /\ UNCHANGED <<segVars, enVars, plVars, auxVars>>
    \/ LookupShip /\ UNCHANGED <<segVars, enVars, plVars, auxVars>>

TlInit == TlIdle /\ SegIdle /\ EnIdle /\ PlIdle /\ AuxIdle

SpecTimeline == TlInit /\ [][TlNext]_vars

----------------------------------------------------------------------------
(* The enrichment chain as a state machine *)

EnInit ==
    /\ TlIdle
    /\ SegIdle
    /\ PlIdle
    /\ AuxIdle
    /\ fight_combat_rows \in EnRowLists
    /\ pilot_db \in EnPilotDbs
    /\ aff_log \in EnAffLogs
    /\ aff_esi_db = EmptyDict
    /\ esi_io = EmptyIo
    /\ \E s \in EnSettings :
          /\ no_esi = s.no_esi
          /\ esi_net = s.net
          /\ item_names = s.item_names_lower
    /\ clock = 1
    /\ en_run = 1
    /\ en_pc = 1
    /\ rows_at_start = fight_combat_rows
    /\ rows_after_first = <<>>

EnCtx ==
    [rows |-> fight_combat_rows, pilot_db |-> pilot_db, aff_esi |-> aff_esi_db,
     io |-> esi_io, now |-> clock]

EnEnv ==
    [item_names_lower |-> item_names, no_esi |-> no_esi, net |-> esi_net,
     aff_log |-> aff_log]

\* Pass k of the chain; after the last pass the next run starts.
RunPass(k) ==
    /\ en_run <= MaxRuns
    /\ en_pc = k
    /\ \E c \in {ApplyPass(PassOrder[k], EnCtx, EnEnv)} :
          /\ fight_combat_rows' = c.rows
          /\ pilot_db' = c.pilot_db
          /\ aff_esi_db' = c.aff_esi
          /\ esi_io' = c.io
          /\ clock' = c.now
          /\ IF k = Len(PassOrder)
             THEN /\ en_run' = en_run + 1
                  /\ en_pc' = 1
                  /\ rows_after_first' = IF en_run = 1 THEN c.rows ELSE rows_after_first
             ELSE /\ en_pc' = k + 1
                  /\ UNCHANGED <<en_run, rows_after_first>>
    /\ UNCHANGED <<aff_log, esi_net, item_names, no_esi, rows_at_start>>

PersistentBackfill == RunPass(1)
InFightBackfill == RunPass(2)
AffMapsFill == RunPass(3)
EsiFallback == RunPass(4)
PilotCorpFill == RunPass(5)
FinalInFightBackfill == RunPass(6)
LearnPersistent == RunPass(7)

EnNext ==
    \/ PersistentBackfill /\ UNCHANGED <<tlVars, segVars, plVars, auxVars>>
    \/ InFightBackfill /\ UNCHANGED <<tlVars, segVars, plVars, auxVars>>
    \/ AffMapsFill /\ UNCHANGED <<tlVars, segVars, plVars, auxVars>>
    \/ EsiFallback /\ UNCHANGED <<tlVars, segVars, plVars, auxVars>>
    \/ PilotCorpFill /\ UNCHANGED <<tlVars, segVars, plVars, auxVars>>
    \/ FinalInFightBackfill /\ UNCHANGED <<tlVars, segVars, plVars, auxVars>>
    \/ LearnPersistent /\ UNCHANGED <<tlVars, segVars, plVars, auxVars>>

SpecEnrich == EnInit /\ [][EnNext]_vars

----------------------------------------------------------------------------
(* Properties of the ship timeline lookup *)

Queried == tl_query # NoQuery

\* The events of the queried pilot and the query time.
QEvents == EventsOf(ship_timeline, Strip(tl_query.pilot))
QT == tl_query.t

SetMax(S) == CHOOSE x \in S : \A y \in S : y <= x

\* The last event with timestamp <= t (0: there is none).
LastAtOrBefore(events, t) ==
    LET S == {i \in 1..Len(events) : events[i].t <= t}
    IN  IF S = {} THEN 0 ELSE SetMax(S)

\* The first known-ship event behind position i that no disembark boundary
\* separates from i (0: there is none).
FirstKnownBehind(events, i) ==
    LET S == {j \in (i + 1)..Len(events) :
                /\ Truthy(events[j].ship)
                /\ \A k \in (i + 1)..(j - 1) : events[k].ship # None}
    IN  IF S = {} THEN 0 ELSE CHOOSE j \in S : \A k \in S : j <= k

StateOf(ev) == <<ev.ship, ev.alliance, ev.corp>>

\* The last event at or before the query time is a disembark boundary.
AtBoundary ==
    /\ Queried
    /\ LastAtOrBefore(QEvents, QT) > 0
    /\ QEvents[LastAtOrBefore(QEvents, QT)].ship = None

\* The timeline of C6: [(t1, "Rifter"), (t2, null), (t3, "Punisher")], t1 < t2 < t3.
RifterNullPunisher ==
    /\ Queried
    /\ Len(QEvents) = 3
    /\ QEvents[1].ship = Rifter
    /\ QEvents[2].ship = None
    /\ QEvents[3].ship = Punisher
    /\ QEvents[1].t < QEvents[2].t
    /\ QEvents[2].t < QEvents[3].t

\* C6 as claimed: on the timeline [(t1,"Rifter"), (t2,null), (t3,"Punisher")]
\* lookup gives "Rifter" before t1, the empty ship strictly between t2 and t3,
\* and "Punisher" at t3.
C6_AsClaimed ==
    RifterNullPunisher =>
        /\ QT < QEvents[1].t => tl_result[1] = Rifter
        /\ (QEvents[2].t < QT /\ QT < QEvents[3].t) => tl_result[1] = EmptyStr
        /\ QT = QEvents[3].t => tl_result[1] = Punisher

\* C6 amended: on that timeline lookup gives "Rifter" before t1, "Punisher"
\* strictly between t2 and t3 (the re-ship is backfilled up to the disembark),
\* and "Punisher" at t3.
C6_RifterNullPunisher ==
    RifterNullPunisher =>
        /\ QT < QEvents[1].t => tl_result[1] = Rifter
        /\ (QEvents[2].t < QT /\ QT < QEvents[3].t) => tl_result[1] = Punisher
        /\ QT = QEvents[3].t => tl_result[1] = Punisher

C6_Witness ==
    /\ RifterNullPunisher
    /\ QEvents[2].t < QT
    /\ QT < QEvents[3].t
    /\ tl_result[1] = Punisher

\* C7: the last event at or before t, when it has a known ship, is returned
\* as it is; with no event at or before t the pilot's first event is returned
\* if it has a known ship and unknown otherwise; no events give unknown.
C7_LookupCases ==
    Queried =>
        LET i == LastAtOrBefore(QEvents, QT) IN
        /\ QEvents = <<>> => tl_result = Unknown
        /\ (QEvents # <<>> /\ i = 0) =>
              tl_result = (IF Truthy(QEvents[1].ship) THEN StateOf(QEvents[1]) ELSE Unknown)
        /\ (i > 0 /\ Truthy(QEvents[i].ship)) => tl_result = StateOf(QEvents[i])

C7_Witness ==
    /\ Queried
    /\ Len(QEvents) = 3
    /\ LastAtOrBefore(QEvents, QT) = 2
    /\ QEvents[2].t = QT
    /\ Truthy(QEvents[2].ship)
    /\ StateOf(QEvents[1]) # StateOf(QEvents[2])
    /\ StateOf(QEvents[3]) # StateOf(QEvents[2])
    /\ tl_result = StateOf(QEvents[2])

\* C8: at a disembark boundary the result is unknown, or it is the state of
\* the first known-ship event behind the boundary that no other boundary
\* separates from it, and then t <= that event's timestamp; the state of an
\* event in front of the boundary is never the source of the result.
C8_DisembarkRule ==
    AtBoundary =>
        LET i == LastAtOrBefore(QEvents, QT)
            j == FirstKnownBehind(QEvents, i)
        IN  \/ tl_result = Unknown
            \/ /\ j # 0
               /\ tl_result = StateOf(QEvents[j])
               /\ QT <= QEvents[j].t

C8_Witness ==
    /\ AtBoundary
    /\ LastAtOrBefore(QEvents, QT) = 2
    /\ Truthy(QEvents[1].ship)
    /\ Len(QEvents) = 3
    /\ Truthy(QEvents[3].ship)
    /\ QEvents[3].ship # QEvents[1].ship
    /\ tl_result = StateOf(QEvents[3])

\* C9 as claimed: at a disembark boundary lookup never returns the ship of
\* an event later than the query time.
C9_AsClaimed ==
    AtBoundary =>
        \A j \in 1..Len(QEvents) : QEvents[j].t > QT => tl_result[1] # QEvents[j].ship

\* C9 amended: at a disembark boundary lookup returns the state of the next
\* known-ship event behind the boundary whenever no further boundary comes
\* before it, however long after the query time that event is, and unknown
\* otherwise: a re-ship is projected backward up to the nearest disembark
\* boundary and never across one.
C9_BackfillToBoundary ==
    AtBoundary =>
        LET i == LastAtOrBefore(QEvents, QT)
            j == FirstKnownBehind(QEvents, i)
        IN  tl_result = (IF j = 0 THEN Unknown ELSE StateOf(QEvents[j]))

C9_Witness ==
    /\ AtBoundary
    /\ Len(QEvents) = 2
    /\ QEvents[1].ship = None
    /\ QEvents[1].t = 0
    /\ QEvents[2].t = MaxT
    /\ QT = 0
    /\ tl_result = StateOf(QEvents[2])
    /\ tl_result # Unknown

----------------------------------------------------------------------------
(* Properties of the fight segmenter *)

Segmented == seg_done

\* The parseable timestamps among the input rows.
SegTimes == {seg_rows[i].seconds : i \in {k \in 1..Len(seg_rows) : seg_rows[k].wellformed}}

WindowsOf(t) == {i \in 1..Len(seg_out) : seg_out[i].start <= t /\ t <= seg_out[i].end}

\* C4: every window has start <= end, each window ends strictly before the
\* next one starts, every parseable timestamp lies in exactly one window, and
\* without a parseable timestamp there is no window.
C4_WindowsPartition ==
    Segmented =>
        /\ \A i \in 1..Len(seg_out) : seg_out[i].start <= seg_out[i].end
        /\ \A i \in 1..(Len(seg_out) - 1) : seg_out[i].end < seg_out[i + 1].start
        /\ \A t \in SegTimes : Cardinality(WindowsOf(t)) = 1
        /\ SegTimes = {} => seg_out = <<>>

C4_Witness ==
    /\ Segmented
    /\ Len(seg_out) = 2
    /\ Len(seg_rows) = 3
    /\ seg_rows[1].wellformed
    /\ seg_rows[2] = BadTs
    /\ seg_rows[3].wellformed
    /\ seg_rows[3].seconds < seg_rows[1].seconds

\* Two timestamps with no input timestamp between them.
Consecutive(a, b) == a < b /\ ~ \E c \in SegTimes : a < c /\ c < b

\* C5: two consecutive timestamps share a window exactly when their
\* difference is at most the threshold (a gap equal to the threshold does not
\* split), and [T, T+1m, T+20m, T+21m] with a threshold of 15 minutes gives
\* exactly the windows [T, T+1m] and [T+20m, T+21m].
C5_GapRule ==
    Segmented =>
        /\ \A a \in SegTimes, b \in SegTimes :
              Consecutive(a, b) =>
                 ((WindowsOf(a) \cap WindowsOf(b) # {}) <=> (b - a <= seg_gap * SecondsPerMinute))
        /\ (seg_rows \in SegExampleRows /\ seg_gap = DefaultGapMinutes) =>
              seg_out = << FightWindow(0, SecondsPerMinute),
                           FightWindow(20 * SecondsPerMinute, 21 * SecondsPerMinute) >>

C5_Witness ==
    /\ Segmented
    /\ seg_gap = 1
    /\ seg_rows = <<TsText(SecondsPerMinute), TsText(0), TsText(2 * SecondsPerMinute + 1)>>
    /\ seg_out = << FightWindow(0, SecondsPerMinute),
                    FightWindow(2 * SecondsPerMinute + 1, 2 * SecondsPerMinute + 1) >>


----------------------------------------------------------------------------
(* The run of main over a set of logs *)

Bo == <<"b", "o">>

\* Line times: one fight at minute 0, another one gap later that lasts a
\* minute.
PlMinutes == {0, DefaultGapMinutes + 1, DefaultGapMinutes + 2}

\* The lines of the logs: bo's log sees al in a Rifter, and is repaired by
\* al in a Punisher; al's own log has a shot at bo, and a disembark.
PlLines ==
    UNION { { LogLine(Bo, m * SecondsPerMinute, "damage_from",
                      Party(Al, CorpC1, <<>>, Rifter)),
              LogLine(Bo, m * SecondsPerMinute, "rep_by",
                      Party(Al, CorpC1, AllianceA1, Punisher)),
              LogLine(Al, m * SecondsPerMinute, "damage_to", Party(Bo, <<>>, <<>>, <<>>)),
              LogLine(Al, m * SecondsPerMinute, "disembark", NoParty) } : m \in PlMinutes }

PlInit ==
    /\ TlIdle
    /\ SegIdle
    /\ AuxIdle
    /\ log_lines \in SeqsUpTo(PlLines, MaxLogLines)
    /\ all_combat_rows = <<>>
    /\ fight_windows = <<>>
    /\ fight_i = 0
    /\ fight_output = <<>>
    /\ pl_pc = "pass1"
    /\ fight_combat_rows = <<>>
    /\ pilot_db \in EnPilotDbs
    /\ aff_log = EmptyDict
    /\ aff_esi_db = EmptyDict
    /\ esi_io = EmptyIo
    /\ \E s \in {Setting(TRUE, NetOk, NoItemNames), Setting(FALSE, NetOk, NoItemNames)} :
          /\ no_esi = s.no_esi
          /\ esi_net = s.net
          /\ item_names = s.item_names_lower
    /\ clock = 1
    /\ en_run = 0
    /\ en_pc = 0
    /\ rows_at_start = <<>>
    /\ rows_after_first = <<>>

\* Pass 1: the ship timeline and the corp->alliance map of the logs.
Pass1 ==
    /\ pl_pc = "pass1"
    /\ LET r == build_ship_timeline_and_afflog(log_lines, aff_log) IN
          /\ ship_timeline' = r.timeline
          /\ aff_log' = r.aff_log
    /\ tl_final' = TRUE
    /\ pl_pc' = "pass2"
    /\ UNCHANGED <<tl_query, tl_result, segVars, auxVars, log_lines, all_combat_rows, fight_windows,
                   fight_i, fight_output, fight_combat_rows, pilot_db, aff_esi_db, esi_io,
                   esi_net, item_names, no_esi, clock, en_run, en_pc, rows_at_start,
                   rows_after_first>>

\* Pass 2: the rows.
Pass2 ==
    /\ pl_pc = "pass2"
    /\ all_combat_rows' = parse_log_file_to_rows(log_lines, ship_timeline)
    /\ pl_pc' = "split"
    /\ UNCHANGED <<tlVars, segVars, auxVars, enVars, log_lines, fight_windows, fight_i, fight_output>>

\* The rows are split into fights; with no window main returns.
SplitIntoFights ==
    /\ pl_pc = "split"
    /\ fight_windows' = split_rows_into_fights(Timestamps(all_combat_rows), DefaultGapMinutes)
    /\ fight_i' = 1
    /\ pl_pc' = IF fight_windows' = <<>> THEN "done" ELSE "fights"
    /\ UNCHANGED <<tlVars, segVars, auxVars, enVars, log_lines, all_combat_rows, fight_output>>

\* One turn of the loop over the fights: the fight's rows, the fight's
\* timeline, the listener state, the enrichment, the entity kinds, the ship
\* and module columns, the split of each dataset and the files.  What the
\* turn writes on the fight's rows it writes on the rows of all_combat_rows;
\* the split copies the rows it renames.
ProcessFight ==
    /\ pl_pc = "fights"
    /\ LET win == fight_windows[fight_i]
           rs == filter_rows_by_window(all_combat_rows, win)
           tl_fight == restrict_timeline(ship_timeline, win.start, win.end)
       IN  IF rs = <<>>
           THEN UNCHANGED <<all_combat_rows, fight_combat_rows, pilot_db, aff_esi_db,
                            esi_io, clock, fight_output>>
           ELSE \E ctx \in {EnrichFight([EnCtx EXCEPT !.rows = _apply_listener_state(rs, tl_fight)],
                                         EnEnv)} :
                /\ fight_combat_rows' = ctx.rows
                /\ pilot_db' = ctx.pilot_db
                /\ aff_esi_db' = ctx.aff_esi
                /\ all_combat_rows' = WrittenInPlace(all_combat_rows, win, ctx.rows)
                /\ esi_io' = _annotate_ship_meta(ctx.rows, ctx.io, esi_net, ~no_esi,
                                                  item_names)
                /\ clock' = ctx.now
                /\ fight_output' = Append(fight_output,
                        [window |-> win, rows |-> WrittenRows(ctx.rows, item_names),
                         kinds |-> _annotate_fight_and_entity_kinds(ctx.rows, item_names),
                         written |-> WrittenFiles(ctx.rows, item_names)])
    /\ fight_i' = fight_i + 1
    /\ pl_pc' = IF fight_i = Len(fight_windows) THEN "done" ELSE "fights"
    /\ UNCHANGED <<tlVars, segVars, auxVars, log_lines, fight_windows, aff_log,
                   esi_net, item_names, no_esi, en_run, en_pc, rows_at_start,
                   rows_after_first>>

PlNext ==
    \/ Pass1
    \/ Pass2
    \/ SplitIntoFights
    \/ ProcessFight

SpecPipeline == PlInit /\ [][PlNext]_vars

----------------------------------------------------------------------------
(* Claims about the enrichment chain (SpecEnrich) *)

\* A field is blank when nothing visible is in it: it is empty once
\* invisible characters are removed and whitespace is stripped.
Blank(x) == normalize_key(x) = <<>>

PartyAt(rs, i, side) == rs[i][side]

\* The in-fight cross-reference of the rows as the chain found them.
InFightAtStart == learn_from_rows_excluding_items(EmptyDict, rows_at_start, item_names, TRUE)

\* C1: fill-only-if-blank.  Whatever pass of the chain runs (persistent
\* backfill, in-fight backfill, corp->alliance fill from the log map and the
\* ESI map, ESI fallback, pilot->corp fill, final in-fight pass), every corp,
\* alliance and ship_type field that was non-blank before the pass holds the
\* same value after it, and no row is added or dropped.
C1_FillOnlyIfBlank ==
    [][ /\ Len(fight_combat_rows') = Len(fight_combat_rows)
        /\ \A i \in 1..Len(fight_combat_rows), side \in SideSet, f \in Fields :
              ~Blank(PartyAt(fight_combat_rows, i, side)[f]) =>
                  PartyAt(fight_combat_rows', i, side)[f] = PartyAt(fight_combat_rows, i, side)[f]
      ]_vars

\* The persistent backfill has run on a party whose corp was set while the
\* pilot DB remembers another corp for the pilot: the corp stands, and the
\* blank alliance beside it was filled from the DB.
C1_Witness ==
    /\ en_run = 1
    /\ en_pc = 2
    /\ \E i \in 1..Len(rows_at_start), side \in SideSet :
          LET before == PartyAt(rows_at_start, i, side)
              after == PartyAt(fight_combat_rows, i, side)
              key == _nk(before.pilot)
          IN  /\ ~Blank(before.corp)
              /\ key \in DOMAIN pilot_db
              /\ pilot_db[key].corp # before.corp
              /\ after.corp = before.corp
              /\ Blank(before.alliance)
              /\ after.alliance = pilot_db[key].alliance

\* C2: idempotence.  Once the chain has run over the fight's rows, running
\* it again on the rows it produced, with the pilot DB, the maps and the
\* cache as the first run left them, leaves every row as the first run left
\* it, after each pass of the later run.
C2_Idempotent == en_run > 1 => fight_combat_rows = rows_after_first

\* A second run has finished on rows that the first run had filled with the
\* help of the lookup.
C2_Witness ==
    /\ en_run > 2
    /\ rows_after_first # rows_at_start
    /\ esi_io.log # <<>>
    /\ aff_esi_db # EmptyDict

\* C3 as claimed: the in-fight cross-reference has priority over the
\* persistent pilot memory.  When the chain has run, every corp or alliance
\* field that was blank at the start, of a pilot for whom the fight's own
\* rows hold a value, holds that in-fight value.
C3_InFightBeforePersistent ==
    en_run > 1 =>
        \A i \in 1..Len(rows_at_start), side \in SideSet, f \in {"corp", "alliance"} :
            LET before == PartyAt(rows_at_start, i, side)
                key == _nk(before.pilot)
            IN  ( /\ Strip(before[f]) = <<>>
                  /\ key \in DOMAIN InFightAtStart
                  /\ ~Blank(InFightAtStart[key][f]) )
                => PartyAt(fight_combat_rows, i, side)[f] = InFightAtStart[key][f]

\* The ship types of the rows, side by side.
ShipTypes(rs) == [i \in 1..Len(rs) |-> <<rs[i].source.ship_type, rs[i].target.ship_type>>]

\* C13: persistent pilot memory never carries ship types.  The persistent
\* backfill changes no row's ship_type, even when the loaded DB entry has
\* one; learning into the persistent DB changes no entry's ship_type (a new
\* entry gets none); and of all passes of the chain only the two in-fight
\* passes, with their throwaway map, may fill a ship_type.
C13_NoShipInPersistentMemory ==
    [][ /\ en_pc \notin {2, 6} => ShipTypes(fight_combat_rows') = ShipTypes(fight_combat_rows)
        /\ \A key \in DOMAIN pilot_db' :
              pilot_db'[key].ship_type = DictGet(pilot_db, key, BlankInfo).ship_type
        /\ en_pc # 7 => pilot_db' = pilot_db
      ]_vars

\* A run has ended for a pilot whose loaded DB entry holds a ship type: a
\* side of the pilot that started with no corp and no ship got its corp
\* from the DB and its ship from the fight's own rows, not from the DB, and
\* the DB learned another corp for the pilot while its ship type stayed.
C13_Witness ==
    /\ en_run = 2
    /\ en_pc = 1
    /\ Al \in DOMAIN pilot_db
    /\ pilot_db[Al] = PilotInfo(CorpC1, AllianceA2, ShipS9)
    /\ \E i \in 1..Len(rows_at_start), side \in SideSet :
          /\ PartyAt(rows_at_start, i, side) = Party(Al, <<>>, <<>>, <<>>)
          /\ PartyAt(fight_combat_rows, i, side) = Party(Al, CorpC2, AllianceA2, ShipS1)

\* The requests and sleeps that a step adds to the log.
NewEvents == SubSeq(esi_io'.log, Len(esi_io.log) + 1, Len(esi_io'.log))

\* The pilot names for which a request to /universe/ids is in a log.
NamesRequested(log) ==
    {log[j].name : j \in {n \in 1..Len(log) : log[n].kind = "request" /\ log[n].endpoint = "ids"}}

\* C14: external lookup gating.  A network request is issued only by the
\* ESI fallback of a fight and only when lookups are enabled; a pilot name is
\* sent to the lookup only if, after the persistent, in-fight and
\* corp->alliance map passes of that fight, a row still has a blank alliance
\* for that pilot, and never when the name is among the reference item
\* names.  With lookups disabled the log of requests stays empty.
C14_LookupGating ==
    /\ [](no_esi => esi_io.log = <<>>)
    /\ [][ /\ SubSeq(esi_io'.log, 1, Len(esi_io.log)) = esi_io.log
            /\ NewEvents # <<>> => (en_pc = 4 /\ ~no_esi)
            /\ \A n \in NamesRequested(NewEvents) :
                  /\ Lower(n) \notin item_names
                  /\ \E i \in 1..Len(fight_combat_rows), side \in SideSet :
                        /\ Strip(PartyAt(fight_combat_rows, i, side).pilot) = n
                        /\ Strip(PartyAt(fight_combat_rows, i, side).alliance) = <<>>
          ]_vars

\* The ESI fallback has run on a fight in which the drone-like name, which
\* is among the reference item names, and the pilot both lack an alliance:
\* the pilot was looked up, the drone-like name was not.
C14_Witness ==
    /\ en_run = 1
    /\ en_pc = 5
    /\ ~no_esi
    /\ Lower(Hob) \in item_names
    /\ \E i \in 1..Len(rows_at_start) :
          /\ rows_at_start[i].source = Party(Hob, <<>>, <<>>, <<>>)
          /\ rows_at_start[i].target = Party(Al, <<>>, <<>>, <<>>)
          /\ Strip(fight_combat_rows[i].source.alliance) = <<>>
    /\ NamesRequested(esi_io.log) = {Al}

----------------------------------------------------------------------------
(* Claims about the run of main (SpecPipeline) *)

\* The known-ship events of a pilot that lie inside a window.
EventsInside(pilot, win) ==
    {e \in {EventsOf(ship_timeline, pilot)[n] : n \in 1..Len(EventsOf(ship_timeline, pilot))} : Truthy(e.ship) /\ win.start <= e.t /\ e.t <= win.end}

\* C10 as claimed: no ship value leaks across fight boundaries.  In the rows
\* written for a fight window W, the ship_type on the listener's own side is
\* blank or the ship of a ship-state event of the listener whose time lies
\* inside W.
C10_NoShipLeak ==
    \A k \in 1..Len(fight_output) :
        \A i \in 1..Len(fight_output[k].rows), side \in SideSet :
            LET r == fight_output[k].rows[i]
                own == PartyAt(fight_output[k].rows, i, side)
            IN  (Strip(own.pilot) # <<>> /\ Strip(own.pilot) = Strip(r.log_listener)) =>
                    \/ Blank(own.ship_type)
                    \/ \E e \in EventsInside(Strip(own.pilot), fight_output[k].window) :
                          e.ship = own.ship_type

\* The rows of the batch as pass 2 made them (the timeline stands from pass
\* 1 on), the rows of fight k among them, and the state the fight's
\* timeline gives for the pilot of a row side at the row's time.
Pass2Rows == parse_log_file_to_rows(log_lines, ship_timeline)

RowsOfPass2(k) == filter_rows_by_window(Pass2Rows, fight_output[k].window)

FightState(k, r, side) ==
    lookup_ship(restrict_timeline(ship_timeline, fight_output[k].window.start,
                                  fight_output[k].window.end),
                Strip(r[side].pilot), _parse_ts(r.timestamp))

StateField(state, f) ==
    CASE f = "ship_type" -> state[1]
      [] f = "alliance" -> state[2]
      [] f = "corp" -> state[3]

OwnSide(r, side) == Strip(r[side].pilot) # <<>> /\ Strip(r[side].pilot) = Strip(r.log_listener)

\* C12 as claimed: from pass 2 to the output, a ship_type, corp or alliance
\* field that holds a non-blank value is never replaced by another value, the
\* per-fight application of the listener's state included.
C12_AsClaimed ==
    \A k \in 1..Len(fight_output) :
        /\ Len(fight_output[k].rows) = Len(RowsOfPass2(k))
        /\ \A i \in 1..Len(fight_output[k].rows), side \in SideSet, f \in Fields :
              ~Blank(PartyAt(RowsOfPass2(k), i, side)[f]) =>
                  PartyAt(fight_output[k].rows, i, side)[f] = PartyAt(RowsOfPass2(k), i, side)[f]

\* C12 amended: from pass 2 to the output, a non-blank ship_type, corp or
\* alliance field keeps its value, except on the listener's own side, where
\* the per-fight application of the listener's state replaces it by the value
\* that the window-restricted timeline gives for the listener at the row's
\* time, whenever that value is not empty.
C12_OnlyListenerStateOverwrites ==
    \A k \in 1..Len(fight_output) :
        /\ Len(fight_output[k].rows) = Len(RowsOfPass2(k))
        /\ \A i \in 1..Len(fight_output[k].rows), side \in SideSet, f \in Fields :
              LET before == RowsOfPass2(k)[i]
                  after == fight_output[k].rows[i]
                  looked == StateField(FightState(k, before, side), f)
              IN  ~Blank(before[side][f]) =>
                      IF OwnSide(before, side) /\ looked # <<>>
                      THEN after[side][f] = looked
                      ELSE after[side][f] = before[side][f]

\* A fight was written in which the listener's own ship, set by pass 2 from
\* an event of an earlier fight, was replaced by the ship the fight's own
\* timeline gives, while the corp beside it, the same in both, stands.
C12_Witness ==
    \E k \in 1..Len(fight_output) :
        \E i \in 1..Len(fight_output[k].rows), side \in SideSet :
            LET before == RowsOfPass2(k)[i]
                after == fight_output[k].rows[i]
            IN  /\ OwnSide(before, side)
                /\ before[side].ship_type = Rifter
                /\ after[side].ship_type = Punisher
                /\ FightState(k, before, side)[1] = Punisher
                /\ before[side].corp = CorpC1
                /\ after[side].corp = CorpC1
                /\ ~OwnSide(before, IF side = "source" THEN "target" ELSE "source")

----------------------------------------------------------------------------
(* restrict_timeline on its own: any timeline, sorted or not, any range. *)

\* The events of the timelines: a ship or a disembark boundary at each time.
RsEvents ==
    {ShipStateEvent(t, ship, <<>>, <<>>) : t \in 0..MaxRestrictT, ship \in {None, Rifter}}

\* Timelines of two pilots: al with up to MaxRestrictEvents events in any
\* order, bo with no event or one.
RsTimelines ==
    { [p \in {Al} |-> evs] : evs \in SeqsUpTo(RsEvents, MaxRestrictEvents) \ {<<>>} }
    \cup { [p \in {Al, Bo} |-> IF p = Al THEN evs ELSE <<ShipStateEvent(t, Rifter, <<>>, <<>>)>>] :
              evs \in SeqsUpTo(RsEvents, MaxRestrictEvents) \ {<<>>}, t \in 0..MaxRestrictT }
    \cup { EmptyTimeline }

RsInit ==
    /\ ship_timeline \in RsTimelines
    /\ tl_final = FALSE
    /\ tl_query = NoQuery
    /\ tl_result = Unknown
    /\ SegIdle
    /\ EnIdle
    /\ PlIdle
    /\ RsIdle
    /\ LkIdle
    /\ AfIdle
    /\ PsIdle
    /\ FnIdle
    /\ CliIdle

RestrictTimeline ==
    /\ \E start \in 0..MaxRestrictT, end \in 0..MaxRestrictT :
          /\ tl_window' = FightWindow(start, end)
          /\ tl_restricted' = restrict_timeline(ship_timeline, start, end)
    /\ UNCHANGED <<ship_timeline, tl_final, tl_query, tl_result>>

RsNext == RestrictTimeline /\ UNCHANGED <<segVars, enVars, plVars, lkVars, afVars, psVars, fnVars, cliVars>>

SpecRestrict == RsInit /\ [][RsNext]_vars

Restricted == tl_window # NoWindow

\* The positions of the events of a list that lie in the range.
KeptIdx(events, win) == {i \in 1..Len(events) : win.start <= events[i].t /\ events[i].t <= win.end}

\* C11: restrict_timeline(timeline, start, end) returns, for each pilot,
\* exactly the events e with start <= e.t <= end, both ends included, in
\* their original order; a pilot left with no event is omitted; and the call
\* leaves the input timeline as it was.
C11_RestrictTimeline ==
    /\ [](Restricted =>
            /\ DOMAIN tl_restricted =
                  {p \in DOMAIN ship_timeline : KeptIdx(ship_timeline[p], tl_window) # {}}
            /\ \A p \in DOMAIN tl_restricted :
                  LET K == KeptIdx(ship_timeline[p], tl_window) IN
                  /\ Len(tl_restricted[p]) = Cardinality(K)
                  /\ \A i \in K :
                        tl_restricted[p][Cardinality({j \in K : j <= i})] = ship_timeline[p][i])
    /\ [][ship_timeline' = ship_timeline]_vars

\* A call on an unsorted list of three events of al that drops the middle
\* one and keeps the two around it, the later one first; the range starts and
\* ends at the times of kept events; bo, whose event is outside, is omitted.
C11_Witness ==
    /\ Restricted
    /\ tl_window = FightWindow(1, 2)
    /\ Bo \in DOMAIN ship_timeline
    /\ Bo \notin DOMAIN tl_restricted
    /\ Len(ship_timeline[Al]) = 3
    /\ ship_timeline[Al][1].t = 2
    /\ ship_timeline[Al][2].t = 0
    /\ ship_timeline[Al][3].t = 1
    /\ tl_restricted[Al] = <<ship_timeline[Al][1], ship_timeline[Al][3]>>

----------------------------------------------------------------------------
(* The pilot lookup on its own: one cache for the run, a network that      *)
(* answers each endpoint with 200, with another status, or not at all.     *)

Statuses == {"ok", "non200", "error"}

LkNets ==
    { Net(ids, character, corporation, alliance, has_corp, has_alliance) :
        ids \in Statuses, character \in Statuses, corporation \in Statuses,
        alliance \in Statuses, has_corp \in BOOLEAN, has_alliance \in BOOLEAN }

\* The names looked up: a character, the same with padding, a name no
\* character has, and another character.
LkNames == {Al, <<"a", "l", " ">>, Bo, Hob}

LkInit ==
    /\ TlIdle
    /\ SegIdle
    /\ PlIdle
    /\ RsIdle
    /\ LkIdle
    /\ AfIdle
    /\ PsIdle
    /\ FnIdle
    /\ CliIdle
    /\ fight_combat_rows = <<>>
    /\ pilot_db = EmptyDict
    /\ aff_log = EmptyDict
    /\ aff_esi_db = EmptyDict
    /\ esi_io = EmptyIo
    /\ esi_net \in LkNets
    /\ item_names = {}
    /\ no_esi = FALSE
    /\ clock = 0
    /\ en_run = 0
    /\ en_pc = 0
    /\ rows_at_start = <<>>
    /\ rows_after_first = <<>>

\* A call of esi_get_pilot_alliance_and_corpinfo.
LookupPilot ==
    /\ Len(lk_calls) < MaxLookups
    /\ \E name \in LkNames :
          /\ lk_calls' = Append(lk_calls, name)
          /\ \E r \in {esi_get_pilot_alliance_and_corpinfo(name, esi_io, esi_net)} :
                /\ esi_io' = r.io
                /\ lk_results' = Append(lk_results, <<r.alliance, r.corp>>)
    /\ UNCHANGED <<fight_combat_rows, pilot_db, aff_log, aff_esi_db, esi_net, item_names,
                   no_esi, clock, en_run, en_pc, rows_at_start, rows_after_first>>

LkNext == LookupPilot /\ UNCHANGED <<tlVars, segVars, plVars, rsVars, afVars, psVars, fnVars, cliVars>>

SpecLookup == LkInit /\ [][LkNext]_vars

\* The names looked up so far, stripped as the lookup strips them.
LkCalled == {Strip(lk_calls[i]) : i \in 1..Len(lk_calls)}

IdsRequests(log, name) == {j \in 1..Len(log) : log[j] = Request("ids", name, 0)}

\* C15: failed lookups are cached and not retried.  Once a pilot name has
\* been looked up, however the lookup ended, the cache holds an entry for the
\* name, the log holds at most one request to /universe/ids for it, and a
\* further lookup of the name issues no network request at all.
C15_CachedNotRetried ==
    /\ [](\A n \in LkCalled :
            /\ n \in DOMAIN esi_io.cache.pilot_alliance
            /\ Cardinality(IdsRequests(esi_io.log, n)) <= 1)
    /\ [][ (/\ Len(lk_calls') = Len(lk_calls) + 1
             /\ Strip(lk_calls'[Len(lk_calls')]) \in LkCalled)
            => esi_io'.log = esi_io.log ]_vars

\* The request for the character id raised; the name was looked up twice
\* more, once with padding: one request in all, and an empty cache entry.
C15_Witness ==
    /\ esi_net.ids = "error"
    /\ lk_calls = <<Al, <<"a", "l", " ">>, Al>>
    /\ esi_io.log = <<Request("ids", Al, 0)>>
    /\ esi_io.cache.pilot_alliance[Al] = <<>>

\* The calls that found nothing in the cache for their name, and the later
\* calls for the same name, which the cache answered.
Populating(i) == \A h \in 1..(i - 1) : Strip(lk_calls[h]) # Strip(lk_calls[i])

\* What the loop of enrich_missing_alliances_via_esi learns from a returned
\* pair: corp_ticker -> alliance_ticker when both are there, else nothing.
LearnedFrom(pair) ==
    IF pair[2] # <<>> /\ pair[1] # <<>> THEN {<<pair[2], pair[1]>>} ELSE {}

\* C29: the pilot lookup is memoized faithfully.  A call answered from the
\* cache returns the same (alliance ticker, corp ticker) pair as the call
\* that populated the cache for the name, and so the corp -> alliance
\* mapping learned from its answer is the same.
C29_MemoizedFaithfully ==
    \A i \in 1..Len(lk_calls), j \in 1..Len(lk_calls) :
        (/\ i < j
         /\ Populating(i)
         /\ Strip(lk_calls[i]) = Strip(lk_calls[j]))
        => /\ lk_results[j] = lk_results[i]
           /\ LearnedFrom(lk_results[j]) = LearnedFrom(lk_results[i])

\* C16 as claimed: between any two consecutive network requests of the
\* lookup functions there is a sleep, however the earlier request ended.
C16_DelayBetweenRequests ==
    \A j \in 1..(Len(esi_io.log) - 1) :
        ~(esi_io.log[j].kind = "request" /\ esi_io.log[j + 1].kind = "request")

----------------------------------------------------------------------------
(* The corp->alliance map of the logs on its own: pass 1 calls             *)
(* update_affiliation_db line after line, file after file, on the records  *)
(* loaded from prior runs.                                                 *)

\* The records loaded: none, or one of the corp.
AfLoaded == {EmptyDict, [k \in {CorpC1} |-> AffiliationRecord(AllianceA2, 1, 1)]}

\* What a line carries: the corp, also padded, or none; an alliance or none;
\* the ship of the entity, or none.
AfCorps == {CorpC1, CorpC1 \o <<" ">>, <<>>}
AfAlliances == {AllianceA1, AllianceA2, <<>>}
AfShips == {Rifter, <<>>}

AfInit ==
    /\ TlIdle
    /\ SegIdle
    /\ PlIdle
    /\ RsIdle
    /\ LkIdle
    /\ AfIdle
    /\ PsIdle
    /\ FnIdle
    /\ CliIdle
    /\ fight_combat_rows = <<>>
    /\ pilot_db = EmptyDict
    /\ aff_log \in AfLoaded
    /\ aff_esi_db = EmptyDict
    /\ esi_io = EmptyIo
    /\ esi_net = NetOk
    /\ item_names = {}
    /\ no_esi = TRUE
    /\ clock = 0
    /\ en_run = 0
    /\ en_pc = 0
    /\ rows_at_start = <<>>
    /\ rows_after_first = <<>>

\* A line of pass 1 that names an entity with its tickers: the tickers go
\* to update_affiliation_db, and where the entity has a ship the line adds
\* the ship event of the pilot.
UpdateAffiliation ==
    /\ Len(af_obs) < MaxAffUpdates
    /\ \E corp \in AfCorps, alliance \in AfAlliances, ts \in 0..MaxAffT, ship \in AfShips :
          /\ aff_log' = update_affiliation_db(aff_log, corp, alliance, ts)
          /\ ship_timeline' =
                IF ship # <<>>
                THEN add_ship_event(ship_timeline, Al, ts, ship, alliance, corp)
                ELSE ship_timeline
          /\ af_obs' = Append(af_obs, [corp |-> corp, alliance |-> alliance, ts |-> ts])
    /\ UNCHANGED <<tl_final, tl_query, tl_result>>
    /\ UNCHANGED <<fight_combat_rows, pilot_db, aff_esi_db, esi_io, esi_net, item_names,
                   no_esi, clock, en_run, en_pc, rows_at_start, rows_after_first>>

AfNext == UpdateAffiliation /\ UNCHANGED <<segVars, plVars, rsVars, lkVars, psVars, fnVars, cliVars>>

SpecAffiliation == AfInit /\ [][AfNext]_vars

\* The observations of a corp that update_affiliation_db takes up: both
\* tickers non-empty.
ObsOf(corp) ==
    {af_obs[i] : i \in {n \in 1..Len(af_obs) :
                          Strip(af_obs[n].corp) = corp /\ Strip(af_obs[n].alliance) # <<>>}}

\* C17 as claimed: over any sequence of update_affiliation_db calls the
\* last_seen of a corp's record never decreases, and once the corp has been
\* observed the stored alliance is that of an observation with the greatest
\* timestamp.
C17_MostRecentWins ==
    /\ [][\A corp \in DOMAIN aff_log : aff_log'[corp].last_seen >= aff_log[corp].last_seen]_vars
    /\ [](\A corp \in DOMAIN aff_log :
            ObsOf(corp) # {} =>
                \E o \in ObsOf(corp) :
                    /\ \A q \in ObsOf(corp) : q.ts <= o.ts
                    /\ aff_log[corp].alliance = Strip(o.alliance))

----------------------------------------------------------------------------
(* The entity kinds over a run of main: bo's log names al with a ticker,   *)
(* al with nothing beside the name, and a drone-like name with a ticker.   *)

KnLines ==
    UNION { { LogLine(Bo, m * SecondsPerMinute, "damage_from",
                      Party(Al, CorpC1, <<>>, Rifter)),
              LogLine(Bo, m * SecondsPerMinute, "damage_from", Party(Al, <<>>, <<>>, <<>>)),
              LogLine(Bo, m * SecondsPerMinute, "damage_to",
                      Party(Hob, CorpC1, <<>>, <<>>)) } : m \in PlMinutes }

KnInit ==
    /\ TlIdle
    /\ SegIdle
    /\ AuxIdle
    /\ log_lines \in SeqsUpTo(KnLines, MaxLogLines)
    /\ all_combat_rows = <<>>
    /\ fight_windows = <<>>
    /\ fight_i = 0
    /\ fight_output = <<>>
    /\ pl_pc = "pass1"
    /\ fight_combat_rows = <<>>
    /\ pilot_db \in EnPilotDbs
    /\ aff_log = EmptyDict
    /\ aff_esi_db = EmptyDict
    /\ esi_io = EmptyIo
    /\ \E s \in {Setting(TRUE, NetOk, NoItemNames), Setting(FALSE, NetOk, NoItemNames)} :
          /\ no_esi = s.no_esi
          /\ esi_net = s.net
          /\ item_names = s.item_names_lower
    /\ clock = 1
    /\ en_run = 0
    /\ en_pc = 0
    /\ rows_at_start = <<>>
    /\ rows_after_first = <<>>

SpecKinds == KnInit /\ [][PlNext]_vars

\* The pilots that some row of the batch shows with a corp or an alliance
\* ticker.
TickeredInBatch == build_known_players(Pass2Rows)

\* C18 as claimed: a pilot that some row of the batch shows with a corp or
\* an alliance ticker is never given the kind "npc", in whichever fight the
\* occurrence falls and whether or not its own line carries a ticker; unless
\* its name reads as a drone or a charge, which the classifier settles first,
\* its kind is "player" in every occurrence.
C18_KnownPlayersBatchWide ==
    \A k \in 1..Len(fight_output) :
        \A i \in 1..Len(fight_output[k].rows), side \in SideSet :
            LET party == fight_output[k].rows[i][side]
                kind == fight_output[k].kinds[i][side]
            IN  _norm_name(party.pilot) \in TickeredInBatch =>
                    /\ kind # "npc"
                    /\ ~looks_like_drone_or_item(party.pilot, item_names) => kind = "player"

----------------------------------------------------------------------------
(* entity.py: the rep-style party. *)

\* The characters of [\s\-\u2013\u2014]
TrailingArtifactChars == WhitespaceChars \cup {"-", "endash", "emdash"}

\* re.sub(r"[\s\-\u2013\u2014]+$", "", segment)
RECURSIVE StripTrailingArtifact(_)
StripTrailingArtifact(s) ==
    IF s = <<>> THEN <<>>
    ELSE IF s[Len(s)] \in TrailingArtifactChars
    THEN StripTrailingArtifact(SubSeq(s, 1, Len(s) - 1))
    ELSE s

\* The first and the last place of character c in s, 0 when it is not there.
FirstIndex(s, c) ==
    IF \E i \in 1..Len(s) : s[i] = c
    THEN CHOOSE i \in 1..Len(s) : s[i] = c /\ \A j \in 1..(i - 1) : s[j] # c
    ELSE 0

LastIndex(s, c) ==
    IF \E i \in 1..Len(s) : s[i] = c
    THEN CHOOSE i \in 1..Len(s) : s[i] = c /\ \A j \in (i + 1)..Len(s) : s[j] # c
    ELSE 0

\* re.findall(r"\[([^\]]+)\]", segment), each group stripped: a "[" opens a
\* group when something other than "]" follows it and a "]" closes it.
RECURSIVE BracketGroups(_)
BracketGroups(s) ==
    IF s = <<>> THEN <<>>
    ELSE IF Head(s) = "[" /\ FirstIndex(Tail(s), "]") > 1
    THEN <<Strip(SubSeq(Tail(s), 1, FirstIndex(Tail(s), "]") - 1))>>
            \o BracketGroups(SubSeq(Tail(s), FirstIndex(Tail(s), "]") + 1, Len(Tail(s))))
    ELSE BracketGroups(Tail(s))

\* re.sub(r"\[[^\]]+\]", "", segment)
RECURSIVE RemoveBracketGroups(_)
RemoveBracketGroups(s) ==
    IF s = <<>> THEN <<>>
    ELSE IF Head(s) = "[" /\ FirstIndex(Tail(s), "]") > 1
    THEN RemoveBracketGroups(SubSeq(Tail(s), FirstIndex(Tail(s), "]") + 1, Len(Tail(s))))
    ELSE <<Head(s)>> \o RemoveBracketGroups(Tail(s))

\* The fallback of parse_rep_party, when the pilot or the ship is still
\* empty: a text without brackets is a pilot name; otherwise the last word
\* of what stands outside the brackets is the ship and the rest the pilot.
RepPartyFallback(segment, pilot, ship) ==
    LET no_brackets == CollapseWhitespace(Strip(RemoveBracketGroups(segment)))
        has_any_brackets == FirstIndex(segment, "[") > 0 \/ FirstIndex(segment, "]") > 0
        k == LastIndex(no_brackets, " ")
    IN  IF ~has_any_brackets
        THEN <<(IF pilot = <<>> THEN no_brackets ELSE pilot), ship>>
        ELSE IF k > 0
        THEN <<(IF pilot = <<>> THEN Strip(SubSeq(no_brackets, 1, k - 1)) ELSE pilot),
               (IF ship = <<>> THEN Strip(SubSeq(no_brackets, k + 1, Len(no_brackets)))
                ELSE ship)>>
        ELSE <<(IF pilot = <<>> THEN no_brackets ELSE pilot), ship>>

\* Variant of RepPartyGuard: the pilot is kept.
RepPartyGuard_none(pilot, ship) == pilot

\* The guardrail of parse_rep_party: a pilot that repeats the ship is dropped.
RepPartyGuard(pilot, ship) ==
    IF pilot # <<>> /\ ship # <<>> /\ Lower(Strip(pilot)) = Lower(Strip(ship))
    THEN <<>> ELSE pilot

\* Returns <<pilot, ship_type, alliance, corp>>.
parse_rep_party(segment_in) ==
    LET segment == Strip(StripTrailingArtifact(Strip(segment_in)))
        tickers == BracketGroups(segment)
        n == Len(tickers)
        pilot_a == IF FirstIndex(segment, "[") > 0
                   THEN Strip(SubSeq(segment, 1, FirstIndex(segment, "[") - 1)) ELSE <<>>
        ship_a == IF LastIndex(segment, "]") > 0
                  THEN Strip(SubSeq(segment, LastIndex(segment, "]") + 1, Len(segment)))
                  ELSE <<>>
        format_b == /\ segment # <<>>
                    /\ segment[Len(segment)] = "]"
                    /\ ship_a = <<>>
                    /\ n > 0
        alliance == IF n >= 2 THEN tickers[1] ELSE <<>>
        corp == IF format_b THEN (IF n >= 3 THEN tickers[2] ELSE <<>>)
                ELSE IF n >= 2 THEN tickers[2]
                ELSE IF n = 1 THEN tickers[1]
                ELSE <<>>
        pilot_b == IF format_b THEN tickers[n] ELSE pilot_a
        ship_b == IF format_b THEN pilot_a ELSE ship_a
        both == IF pilot_b = <<>> \/ ship_b = <<>>
                THEN RepPartyFallback(segment, pilot_b, ship_b)
                ELSE <<pilot_b, ship_b>>
    IN  <<RepPartyGuard(both[1], both[2]), both[2], alliance, corp>>

----------------------------------------------------------------------------
(* Pass 2 line by line: the lexer and the matcher chain of                  *)
(* parse_log_file_to_rows over one log file. A body is the text behind the  *)
(* channel of a timestamped line; clean_line has put one blank between two  *)
(* words and none at either end. The records keep the dataset, the listener *)
(* and the line number; the parties of a record are the entity parser's     *)
(* matter.                                                                  *)

Digits == {"0", "1", "2", "3", "4", "5", "6", "7", "8", "9"}

\* str.isdigit()
IsDigit(cs) == cs # <<>> /\ \A i \in 1..Len(cs) : cs[i] \in Digits

\* text.find(p) + 1: where the first occurrence of p starts, 0 when there is
\* none.
Find(text, p) ==
    LET at == {i \in 1..(Len(text) - Len(p) + 1) : SubSeq(text, i, i + Len(p) - 1) = p}
    IN  IF at = {} THEN 0 ELSE CHOOSE i \in at : \A j \in at : i <= j

\* text.partition(p)[0] and text.partition(p)[2]
Before(text, p) ==
    IF Find(text, p) = 0 THEN text ELSE SubSeq(text, 1, Find(text, p) - 1)

After(text, p) ==
    IF Find(text, p) = 0 THEN <<>> ELSE SubSeq(text, Find(text, p) + Len(p), Len(text))

Space == <<" ">>
Dash == <<" ", "-", " ">>

\* text.split(" ", 1)[0].strip()
FirstWord(text) == Strip(Before(text, Space))

\* len(rest.split(" - ")): the separators are found from left to right, none
\* of them overlapping the one before.
RECURSIVE NParts(_)
NParts(rest) ==
    IF Find(rest, Dash) = 0 THEN 1 ELSE 1 + NParts(After(rest, Dash))

\* The patterns of the re module. A pattern is a sequence of items; an item
\* asks for one character of a class, for one or none, or for any number of
\* them. The classes are "digit" (\d), "space" (\s), "any" (.) and a literal
\* character, which under re.IGNORECASE stands for either case of it.
One(class) == <<[kind |-> "one", class |-> class]>>
Opt(class) == <<[kind |-> "opt", class |-> class]>>
Star(class) == <<[kind |-> "star", class |-> class]>>
Plus(class) == One(class) \o Star(class)
Lit(text) == [i \in 1..Len(text) |-> [kind |-> "one", class |-> text[i]]]

InClass(c, class) ==
    CASE class = "digit" -> c \in Digits
      [] class = "space" -> c \in WhitespaceChars
      [] class = "any" -> TRUE
      [] OTHER -> LowerChar(c) = LowerChar(class)

\* The matcher as a set of positions: position k is "the first k items are
\* done". An item that may be empty is passed over without a character.
RECURSIVE Closure(_, _)
Closure(pattern, at) ==
    LET more == at \cup {k + 1 : k \in {j \in at : /\ j < Len(pattern)
                                                   /\ pattern[j + 1].kind \in {"opt", "star"}}}
    IN  IF more = at THEN at ELSE Closure(pattern, more)

Step(pattern, at, c) ==
    LET takes(j) == j < Len(pattern) /\ InClass(c, pattern[j + 1].class)
        moved == {j + 1 : j \in {k \in at : takes(k) /\ pattern[k + 1].kind \in {"one", "opt"}}}
        stayed == {k \in at : takes(k) /\ pattern[k + 1].kind = "star"}
    IN  Closure(pattern, moved \cup stayed)

\* The positions reached from those of at by the characters a..b of the
\* text, one half of them after the other.
RECURSIVE Run(_, _, _, _, _)
Run(pattern, at, text, a, b) ==
    IF at = {} \/ a > b THEN at
    ELSE IF a = b THEN Step(pattern, at, text[a])
    ELSE LET mid == (a + b) \div 2
             half == Run(pattern, at, text, a, mid)
         IN  IF half = {} THEN {} ELSE Run(pattern, half, text, mid + 1, b)

\* pattern.match(text) for a pattern that is anchored at both ends
FullMatch(pattern, text) ==
    Len(pattern) \in Run(pattern, Closure(pattern, {0}), text, 1, Len(text))

\* ewar.classify_ewar: the first keyword of EWAR_KEYWORDS, in dict order,
\* that the lower-cased text contains.
classify_ewar(text) ==
    LET t == Lower(text)
        found(k) == Infix(k, t)
    IN  IF found(<<"j", "a", "m", "m", "e", "d">>)
        THEN "ECM"
        ELSE IF found(<<"e", "n", "e", "r", "g", "y", " ", "n", "e", "u", "t", "r", "a", "l", "i", "z", "e", "d">>)
        THEN "Energy Neutralizer"
        ELSE IF found(<<"n", "e", "u", "t", "r", "a", "l", "i", "z", "e", "d">>)
        THEN "Energy Neutralizer"
        ELSE IF found(<<"e", "n", "e", "r", "g", "y", " ", "d", "r", "a", "i", "n", "e", "d">>)
        THEN "Energy Nosferatu"
        ELSE IF found(<<"d", "r", "a", "i", "n", "e", "d">>)
        THEN "Energy Nosferatu"
        ELSE IF found(<<"n", "o", "s", "f", "e", "r", "a", "t", "u">>)
        THEN "Energy Nosferatu"
        ELSE IF found(<<"w", "a", "r", "p", " ", "s", "c", "r", "a", "m", "b", "l", "e", "d">>)
        THEN "Warp Scrambler"
        ELSE IF found(<<"w", "a", "r", "p", " ", "d", "i", "s", "r", "u", "p", "t", "e", "d">>)
        THEN "Warp Disruptor"
        ELSE IF found(<<"w", "e", "b", "b", "e", "d">>)
        THEN "Stasis Web"
        ELSE IF found(<<"d", "a", "m", "p", "e", "n", "e", "d">>)
        THEN "Sensor Dampener"
        ELSE IF found(<<"t", "r", "a", "c", "k", "i", "n", "g", " ", "d", "i", "s", "r", "u", "p", "t", "e", "d">>)
        THEN "Tracking Disruptor"
        ELSE IF found(<<"p", "a", "i", "n", "t", "e", "d">>)
        THEN "Target Painter"
        ELSE "Unknown EWAR"

CapWarfareTypes == {"Energy Neutralizer", "Energy Nosferatu"}

\* What each matcher asks of the body, in the order of the chain.

BoostedTo ==
    <<"r", "e", "m", "o", "t", "e", " ", "s", "h", "i", "e", "l", "d", " ", "b",
    "o", "o", "s", "t", "e", "d", " ", "t", "o">>

BoostedBy ==
    <<"r", "e", "m", "o", "t", "e", " ", "s", "h", "i", "e", "l", "d", " ", "b",
    "o", "o", "s", "t", "e", "d", " ", "b", "y">>

\* "<amount> remote shield boosted to|by <party> - <module>"
RepairMatch(body, phrase) ==
    /\ Infix(phrase, body)
    /\ IsDigit(FirstWord(Strip(Before(body, phrase))))
    /\ Infix(Dash, Strip(After(body, phrase)))

\* ^(\d+)\s+GJ\s+energy\s+neutralized\s+(.+?)\s+-\s+(.+)$
ENERGY_NEUT_AMOUNT_RE ==
    Plus("digit") \o Plus("space") \o Lit(<<"G", "J">>) \o Plus("space") \o
        Lit(<<"e", "n", "e", "r", "g", "y">>) \o Plus("space") \o
        Lit(<<"n", "e", "u", "t", "r", "a", "l", "i", "z", "e", "d">>) \o Plus("space") \o
        Plus("any") \o Plus("space") \o Lit(<<"-">>) \o Plus("space") \o Plus("any")

EnergyNeutMatch(body) == FullMatch(ENERGY_NEUT_AMOUNT_RE, body)

\* ^(-)?(\d+)\s+GJ\s+energy\s+drained\s+to\s+(.+?)\s+-\s+(.+)$
ENERGY_DRAIN_TO_AMOUNT_RE ==
    Opt("-") \o Plus("digit") \o Plus("space") \o Lit(<<"G", "J">>) \o Plus("space") \o
        Lit(<<"e", "n", "e", "r", "g", "y">>) \o Plus("space") \o
        Lit(<<"d", "r", "a", "i", "n", "e", "d">>) \o Plus("space") \o Lit(<<"t", "o">>) \o
        Plus("space") \o Plus("any") \o Plus("space") \o Lit(<<"-">>) \o Plus("space") \o
        Plus("any")

EnergyDrainMatch(body) == FullMatch(ENERGY_DRAIN_TO_AMOUNT_RE, body)

\* "You're ... by <entity> - <module>" with a known effect
EwarReceivedType(body) == classify_ewar(Before(body, <<" ", "b", "y", " ">>))

EwarReceivedMatch(body) ==
    /\ StartsWith(body, <<"Y", "o", "u", "'", "r", "e", " ">>)
    /\ Infix(<<" ", "b", "y", " ">>, body)
    /\ Infix(Dash, body)
    /\ EwarReceivedType(body) # "Unknown EWAR"

TransmittedBy ==
    <<"t", "r", "a", "n", "s", "m", "i", "t", "t", "e", "d", " ", "b", "y">>

TransmittedTo ==
    <<"t", "r", "a", "n", "s", "m", "i", "t", "t", "e", "d", " ", "t", "o">>

\* "<amount> remote capacitor transmitted by|to <party> - <module>"
CapacitorDirection(body) ==
    IF Infix(Space \o TransmittedBy \o Space, body) THEN "by"
    ELSE IF Infix(Space \o TransmittedTo \o Space, body) THEN "to"
    ELSE "none"

CapacitorMatch(body) ==
    /\ Infix(<<"r", "e", "m", "o", "t", "e", " ", "c", "a", "p", "a", "c", "i", "t", "o", "r", " ", "t", "r", "a", "n", "s", "m", "i", "t", "t", "e", "d">>,
             body)
    /\ IsDigit(FirstWord(body))
    /\ CASE CapacitorDirection(body) = "by" -> Infix(Dash, Strip(After(body, TransmittedBy)))
         [] CapacitorDirection(body) = "to" -> Infix(Dash, Strip(After(body, TransmittedTo)))
         [] OTHER -> FALSE

\* ^Your group of (.+?) misses (.+?) completely\s*-\s*(.+?)\s*$
GROUP_MISS_RE ==
    Lit(<<"Y", "o", "u", "r", " ", "g", "r", "o", "u", "p", " ", "o", "f", " ">>) \o
        Plus("any") \o Lit(<<" ", "m", "i", "s", "s", "e", "s", " ">>) \o Plus("any") \o
        Lit(<<" ", "c", "o", "m", "p", "l", "e", "t", "e", "l", "y">>) \o Star("space") \o
        Lit(<<"-">>) \o Star("space") \o Plus("any") \o Star("space")

GroupMissMatch(body) == FullMatch(GROUP_MISS_RE, body)

\* "You ... - <module>" with a known effect
EwarDoneMatch(body) ==
    /\ StartsWith(body, <<"Y", "o", "u", " ">>)
    /\ Infix(Dash, body)
    /\ classify_ewar(body) # "Unknown EWAR"

\* "<amount> from|to <entity> - <weapon> - <result>"
DamageMatch(body, word) ==
    /\ Infix(Space \o word \o Space, body)
    /\ IsDigit(FirstWord(body))
    /\ NParts(After(body, word \o Space)) >= 3

\* ^(.+?)\s+belonging\s+to\s+(.+?)\s+misses\s+you\s+completely\s*-\s*(.+?)\s*$
DRONE_MISS_RE ==
    Plus("any") \o Plus("space") \o Lit(<<"b", "e", "l", "o", "n", "g", "i", "n", "g">>) \o
        Plus("space") \o Lit(<<"t", "o">>) \o Plus("space") \o Plus("any") \o Plus("space") \o
        Lit(<<"m", "i", "s", "s", "e", "s">>) \o Plus("space") \o Lit(<<"y", "o", "u">>) \o
        Plus("space") \o Lit(<<"c", "o", "m", "p", "l", "e", "t", "e", "l", "y">>) \o
        Star("space") \o Lit(<<"-">>) \o Star("space") \o Plus("any") \o Star("space")

DroneMissMatch(body) == FullMatch(DRONE_MISS_RE, body)

\* "Warp scramble|disruption attempt ... from ... to ..."
PropulsionJamMatch(body) ==
    /\ \/ Infix(<<"W", "a", "r", "p", " ", "s", "c", "r", "a", "m", "b", "l", "e", " ", "a", "t", "t", "e", "m", "p", "t">>,
                body)
       \/ Infix(<<"W", "a", "r", "p", " ", "d", "i", "s", "r", "u", "p", "t", "i", "o", "n", " ", "a", "t", "t", "e", "m", "p", "t">>,
                body)
    /\ Infix(<<" ", "f", "r", "o", "m", " ">>, body)
    /\ Infix(<<" ", "t", "o", " ">>, body)

\* The chain: c carries the classified flag and the datasets appended to.
Unclassified == [classified |-> FALSE, datasets |-> <<>>]

Accept(c, datasets) == [classified |-> TRUE, datasets |-> c.datasets \o datasets]

RepairsDone(c, chan, body) ==
    IF chan = "combat" /\ RepairMatch(body, BoostedTo)
    THEN Accept(c, <<"repairs_done">>) ELSE c

RepairsReceived(c, chan, body) ==
    IF chan = "combat" /\ ~c.classified /\ RepairMatch(body, BoostedBy)
    THEN Accept(c, <<"repairs_received">>) ELSE c

EnergyNeutralized(c, chan, body) ==
    IF chan = "combat" /\ ~c.classified /\ EnergyNeutMatch(body)
    THEN Accept(c, <<"cap_warfare_received">>) ELSE c

EnergyDrained(c, chan, body) ==
    IF chan = "combat" /\ ~c.classified /\ EnergyDrainMatch(body)
    THEN Accept(c, <<"cap_warfare_received">>) ELSE c

EwarReceived(c, chan, body) ==
    IF chan = "combat" /\ ~c.classified /\ EwarReceivedMatch(body)
    THEN Accept(c, IF EwarReceivedType(body) \in CapWarfareTypes
                   THEN <<"cap_warfare_received">> ELSE <<"ewar_effects_received">>)
    ELSE c

CapacitorTransmitted(c, chan, body) ==
    IF chan = "combat" /\ ~c.classified /\ CapacitorMatch(body)
    THEN Accept(c, IF CapacitorDirection(body) = "by"
                   THEN <<"capacitor_done", "capacitor_received">>
                   ELSE <<"capacitor_done">>)
    ELSE c

GroupMiss(c, chan, body) ==
    IF chan = "combat" /\ ~c.classified /\ GroupMissMatch(body)
    THEN Accept(c, <<"damage_done">>) ELSE c

EwarDone(c, chan, body) ==
    IF chan = "combat" /\ ~c.classified /\ EwarDoneMatch(body)
    THEN Accept(c, IF classify_ewar(body) \in CapWarfareTypes
                   THEN <<"cap_warfare_done">> ELSE <<"ewar_effects_done">>)
    ELSE c

DamageReceived(c, chan, body) ==
    IF chan = "combat" /\ ~c.classified /\ DamageMatch(body, <<"f", "r", "o", "m">>)
    THEN Accept(c, <<"damage_received">>) ELSE c

\* Variant of DamageDone: the classified flag is not looked at.
DamageDone_unguarded(c, chan, body) ==
    IF chan = "combat" /\ DamageMatch(body, <<"t", "o">>)
    THEN Accept(c, <<"damage_done">>) ELSE c

DamageDone(c, chan, body) ==
    IF chan = "combat" /\ ~c.classified /\ DamageMatch(body, <<"t", "o">>)
    THEN Accept(c, <<"damage_done">>) ELSE c

DroneMiss(c, chan, body) ==
    IF chan = "combat" /\ ~c.classified /\ DroneMissMatch(body)
    THEN Accept(c, <<"damage_received">>) ELSE c

PropulsionJam(c, chan, body) ==
    IF chan = "combat" /\ ~c.classified /\ PropulsionJamMatch(body)
    THEN Accept(c, <<"propulsion_jam_attempts">>) ELSE c

MatcherChain(chan, body) ==
    PropulsionJam(DroneMiss(DamageDone(DamageReceived(EwarDone(GroupMiss(
        CapacitorTransmitted(EwarReceived(EnergyDrained(EnergyNeutralized(
            RepairsReceived(RepairsDone(Unclassified, chan, body), chan, body),
            chan, body), chan, body), chan, body), chan, body), chan, body),
        chan, body), chan, body), chan, body), chan, body), chan, body)

\* The lines of a log file: a "Listener:" header with what follows the
\* colon, a timestamped line "[ts] (chan) body", and any other line.
Line(form, name, ts, chan, body) ==
    [form |-> form, name |-> name, ts |-> ts, chan |-> chan, body |-> body]

ListenerLine(name) == Line("listener", name, BadTs, "", <<>>)
TsLine(ts, chan, body) == Line("ts", <<>>, ts, chan, body)
JunkLine == Line("junk", <<>>, BadTs, "", <<>>)

\* Between the lines of one file and those of the next.
NextFile == Line("open", <<>>, BadTs, "", <<>>)

DisembarkingFromShip ==
    <<"D", "i", "s", "e", "m", "b", "a", "r", "k", "i", "n", "g", " ",
    "f", "r", "o", "m", " ", "s", "h", "i", "p">>

Hello == <<"h", "e", "l", "l", "o">>

\* Bodies that one matcher accepts, that two would accept, that none does.
PsBodies ==
    {
      \* 50 remote shield boosted to al - Rep
      <<"5", "0", " ", "r", "e", "m", "o", "t", "e", " ", "s", "h", "i", "e", "l", "d", " ",
        "b", "o", "o", "s", "t", "e", "d", " ", "t", "o", " ", "a", "l", " ", "-", " ", "R",
        "e", "p">>,
      \* 50 remote shield boosted to al - Rep - Hits
      <<"5", "0", " ", "r", "e", "m", "o", "t", "e", " ", "s", "h", "i", "e", "l", "d", " ",
        "b", "o", "o", "s", "t", "e", "d", " ", "t", "o", " ", "a", "l", " ", "-", " ", "R",
        "e", "p", " ", "-", " ", "H", "i", "t", "s">>,
      \* remote shield boosted to al - Rep
      <<"r", "e", "m", "o", "t", "e", " ", "s", "h", "i", "e", "l", "d", " ", "b", "o", "o",
        "s", "t", "e", "d", " ", "t", "o", " ", "a", "l", " ", "-", " ", "R", "e", "p">>,
      \* 50 Remote shield boosted to al - Rep
      <<"5", "0", " ", "R", "e", "m", "o", "t", "e", " ", "s", "h", "i", "e", "l", "d", " ",
        "b", "o", "o", "s", "t", "e", "d", " ", "t", "o", " ", "a", "l", " ", "-", " ", "R",
        "e", "p">>,
      \* 50 remote shield boosted by al [A1] [C1] Punisher - Rep
      <<"5", "0", " ", "r", "e", "m", "o", "t", "e", " ", "s", "h", "i", "e", "l", "d", " ",
        "b", "o", "o", "s", "t", "e", "d", " ", "b", "y", " ", "a", "l", " ", "[", "A", "1",
        "]", " ", "[", "C", "1", "]", " ", "P", "u", "n", "i", "s", "h", "e", "r", " ", "-",
        " ", "R", "e", "p">>,
      \* 7 GJ energy neutralized al - Neut
      <<"7", " ", "G", "J", " ", "e", "n", "e", "r", "g", "y", " ", "n", "e", "u", "t", "r",
        "a", "l", "i", "z", "e", "d", " ", "a", "l", " ", "-", " ", "N", "e", "u", "t">>,
      \* 7 gj Energy neutralized al - Neut
      <<"7", " ", "g", "j", " ", "E", "n", "e", "r", "g", "y", " ", "n", "e", "u", "t", "r",
        "a", "l", "i", "z", "e", "d", " ", "a", "l", " ", "-", " ", "N", "e", "u", "t">>,
      \* -7 GJ energy drained to al - Nos
      <<"-", "7", " ", "G", "J", " ", "e", "n", "e", "r", "g", "y", " ", "d", "r", "a", "i",
        "n", "e", "d", " ", "t", "o", " ", "a", "l", " ", "-", " ", "N", "o", "s">>,
      \* 7 GJ energy drained to al - Nos - x
      <<"7", " ", "G", "J", " ", "e", "n", "e", "r", "g", "y", " ", "d", "r", "a", "i", "n",
        "e", "d", " ", "t", "o", " ", "a", "l", " ", "-", " ", "N", "o", "s", " ", "-", " ",
        "x">>,
      \* You're jammed by al - ECM
      <<"Y", "o", "u", "'", "r", "e", " ", "j", "a", "m", "m", "e", "d", " ", "b", "y", " ",
        "a", "l", " ", "-", " ", "E", "C", "M">>,
      \* You're neutralized by al - Neut
      <<"Y", "o", "u", "'", "r", "e", " ", "n", "e", "u", "t", "r", "a", "l", "i", "z", "e",
        "d", " ", "b", "y", " ", "a", "l", " ", "-", " ", "N", "e", "u", "t">>,
      \* You're hugged by al - x
      <<"Y", "o", "u", "'", "r", "e", " ", "h", "u", "g", "g", "e", "d", " ", "b", "y", " ",
        "a", "l", " ", "-", " ", "x">>,
      \* 351 remote capacitor transmitted by al - - Cap
      <<"3", "5", "1", " ", "r", "e", "m", "o", "t", "e", " ", "c", "a", "p", "a", "c", "i",
        "t", "o", "r", " ", "t", "r", "a", "n", "s", "m", "i", "t", "t", "e", "d", " ", "b",
        "y", " ", "a", "l", " ", "-", " ", "-", " ", "C", "a", "p">>,
      \* 351 remote capacitor transmitted to al - Cap
      <<"3", "5", "1", " ", "r", "e", "m", "o", "t", "e", " ", "c", "a", "p", "a", "c", "i",
        "t", "o", "r", " ", "t", "r", "a", "n", "s", "m", "i", "t", "t", "e", "d", " ", "t",
        "o", " ", "a", "l", " ", "-", " ", "C", "a", "p">>,
      \* 351 remote capacitor transmitted to al - Cap - x
      <<"3", "5", "1", " ", "r", "e", "m", "o", "t", "e", " ", "c", "a", "p", "a", "c", "i",
        "t", "o", "r", " ", "t", "r", "a", "n", "s", "m", "i", "t", "t", "e", "d", " ", "t",
        "o", " ", "a", "l", " ", "-", " ", "C", "a", "p", " ", "-", " ", "x">>,
      \* 351 remote capacitor transmitted to al
      <<"3", "5", "1", " ", "r", "e", "m", "o", "t", "e", " ", "c", "a", "p", "a", "c", "i",
        "t", "o", "r", " ", "t", "r", "a", "n", "s", "m", "i", "t", "t", "e", "d", " ", "t",
        "o", " ", "a", "l">>,
      \* Your group of Guns misses al completely - Gun
      <<"Y", "o", "u", "r", " ", "g", "r", "o", "u", "p", " ", "o", "f", " ", "G", "u", "n",
        "s", " ", "m", "i", "s", "s", "e", "s", " ", "a", "l", " ", "c", "o", "m", "p", "l",
        "e", "t", "e", "l", "y", " ", "-", " ", "G", "u", "n">>,
      \* You jammed al - ECM
      <<"Y", "o", "u", " ", "j", "a", "m", "m", "e", "d", " ", "a", "l", " ", "-", " ", "E",
        "C", "M">>,
      \* You drained al - Nos
      <<"Y", "o", "u", " ", "d", "r", "a", "i", "n", "e", "d", " ", "a", "l", " ", "-", " ",
        "N", "o", "s">>,
      \* 100 from al[C1](Rifter) - Gun - Hits
      <<"1", "0", "0", " ", "f", "r", "o", "m", " ", "a", "l", "[", "C", "1", "]", "(", "R",
        "i", "f", "t", "e", "r", ")", " ", "-", " ", "G", "u", "n", " ", "-", " ", "H", "i",
        "t", "s">>,
      \* 100 from al - Gun
      <<"1", "0", "0", " ", "f", "r", "o", "m", " ", "a", "l", " ", "-", " ", "G", "u", "n">>,
      \* 100 to al[C1](Rifter) - Gun - Hits
      <<"1", "0", "0", " ", "t", "o", " ", "a", "l", "[", "C", "1", "]", "(", "R", "i", "f",
        "t", "e", "r", ")", " ", "-", " ", "G", "u", "n", " ", "-", " ", "H", "i", "t", "s">>,
      \* 1x0 to al - Gun - Hits
      <<"1", "x", "0", " ", "t", "o", " ", "a", "l", " ", "-", " ", "G", "u", "n", " ", "-",
        " ", "H", "i", "t", "s">>,
      \* 100 from al to bo - Gun - Hits
      <<"1", "0", "0", " ", "f", "r", "o", "m", " ", "a", "l", " ", "t", "o", " ", "b", "o",
        " ", "-", " ", "G", "u", "n", " ", "-", " ", "H", "i", "t", "s">>,
      \* Hobgoblin II belonging to al misses you completely - Hob
      <<"H", "o", "b", "g", "o", "b", "l", "i", "n", " ", "I", "I", " ", "b", "e", "l", "o",
        "n", "g", "i", "n", "g", " ", "t", "o", " ", "a", "l", " ", "m", "i", "s", "s", "e",
        "s", " ", "y", "o", "u", " ", "c", "o", "m", "p", "l", "e", "t", "e", "l", "y", " ",
        "-", " ", "H", "o", "b">>,
      \* Warp scramble attempt from al - to you! -
      <<"W", "a", "r", "p", " ", "s", "c", "r", "a", "m", "b", "l", "e", " ", "a", "t", "t",
        "e", "m", "p", "t", " ", "f", "r", "o", "m", " ", "a", "l", " ", "-", " ", "t", "o",
        " ", "y", "o", "u", "!", " ", "-">>,
      \* 5 Warp disruption attempt from al - to bo - x
      <<"5", " ", "W", "a", "r", "p", " ", "d", "i", "s", "r", "u", "p", "t", "i", "o", "n",
        " ", "a", "t", "t", "e", "m", "p", "t", " ", "f", "r", "o", "m", " ", "a", "l", " ",
        "-", " ", "t", "o", " ", "b", "o", " ", "-", " ", "x">>,
      \* hello
      <<"h", "e", "l", "l", "o">> }

PsLines ==
    {ListenerLine(<<" ", "a", "l">>), ListenerLine(<<" ", "b", "o">>), ListenerLine(<<>>), JunkLine}
        \cup {TsLine(TsText(0), "combat", body) : body \in PsBodies}
        \cup {TsLine(TsText(0), "notify", DisembarkingFromShip),
              TsLine(TsText(0), "notify",
                     \* 100 to al[C1](Rifter) - Gun - Hits
                     <<"1", "0", "0", " ", "t", "o", " ", "a", "l", "[", "C", "1", "]", "(",
                       "R", "i", "f", "t", "e", "r", ")", " ", "-", " ", "G", "u", "n", " ",
                       "-", " ", "H", "i", "t", "s">>),
              TsLine(BadTs, "combat", Hello)}

\* Where a line stands: its file, and its 1-based number in the file.
Origin(log_file, line_no) == [log_file |-> log_file, line_no |-> line_no]

TypedRecord(dataset, line, listener, origin) ==
    [dataset |-> dataset, timestamp |-> line.ts, log_listener |-> listener,
     log_file |-> origin.log_file, Log_file_line_number |-> origin.line_no]

TypedRecords(c, line, listener, origin) ==
    [i \in 1..Len(c.datasets) |-> TypedRecord(c.datasets[i], line, listener, origin)]

\* The record appended to others_rows when no matcher has accepted.
OtherRecords(c, line, listener, origin) ==
    IF ~c.classified
    THEN << [timestamp |-> line.ts, channel |-> line.chan, log_listener |-> listener,
             text |-> line.body, log_file |-> origin.log_file,
             Log_file_line_number |-> origin.line_no] >>
    ELSE <<>>

\* entity.parse_damage_entity: DAMAGE_ENTITY_RE reads "pilot[corp](ship)"
\* from the first to the last character of the stripped text, with the
\* shortest pilot it can: a "[", a corp up to the next "]", a "(" right
\* behind it, and a ship up to the next ")", which ends the text; corp and
\* ship are not empty.  A text it does not read so is a name on its own.
parse_damage_entity(entity_in) ==
    LET entity == Strip(entity_in)
        n == Len(entity)
        NextOf(c, from) ==
            LET at == {k \in from..n : entity[k] = c}
            IN  IF at = {} THEN 0 ELSE CHOOSE k \in at : \A j \in at : k <= j
        Reads(i) ==
            /\ entity[i] = "["
            /\ NextOf("]", i + 1) > i + 1
            /\ NextOf("]", i + 1) < n
            /\ entity[NextOf("]", i + 1) + 1] = "("
            /\ NextOf(")", NextOf("]", i + 1) + 2) = n
            /\ n > NextOf("]", i + 1) + 2
        opens == {i \in 1..n : Reads(i)}
        open == CHOOSE i \in opens : \A j \in opens : i <= j
        close == NextOf("]", open + 1)
    IN  IF opens = {} THEN [pilot |-> entity, corp |-> <<>>, ship |-> <<>>]
        ELSE [pilot |-> Strip(SubSeq(entity, 1, open - 1)),
              corp |-> Strip(SubSeq(entity, open + 1, close - 1)),
              ship |-> Strip(SubSeq(entity, close + 2, n - 1))]

\* entity.parse_entity_any: the rep-style reading, and the damage-style one
\* when that finds neither a corp nor a ship.  Returns <<pilot, ship,
\* alliance, corp>>.
parse_entity_any(text) ==
    LET party == parse_rep_party(text)
        entity == parse_damage_entity(text)
    IN  IF party[4] = <<>> /\ party[2] = <<>>
        THEN <<entity.pilot, entity.ship, <<>>, entity.corp>>
        ELSE party

\* What pass 1 has built so far.
Pass1State(timeline, aff) == [timeline |-> timeline, aff_log |-> aff]

\* What a combat line tells pass 1 of an entity: <<pilot, ship, alliance,
\* corp>>, and whether the tickers go to update_affiliation_db.
Sighting(party, learn) == [party |-> party, learn |-> learn]

\* The "remote shield boosted by" and "remote shield boosted to" lines: the
\* party stands before the first dash of what follows the phrase, and a
\* line without a dash there is passed over.
RepSighting(right) ==
    IF ~Infix(Dash, Strip(right)) THEN <<>>
    ELSE <<Sighting(parse_rep_party(Before(Strip(right), Dash)), TRUE)>>

\* The damage-style sightings: the entity stands before the first dash of
\* what follows "from " or "to ", and its event has no alliance.
DamageSighting(rest) ==
    LET entity == parse_damage_entity(Strip(Before(rest, Dash)))
    IN  <<Sighting(<<entity.pilot, entity.ship, <<>>, entity.corp>>, FALSE)>>

WarpScrambleAttempt ==
    <<"W", "a", "r", "p", " ", "s", "c", "r", "a", "m", "b", "l", "e", " ", "a", "t", "t", "e", "m",
      "p", "t">>

\* The "You're ... by <entity> - <module>" lines: the entity with its
\* tickers.
YoureBy(body) ==
    LET entity_part == Before(After(body, <<" ", "b", "y", " ">>), Dash)
    IN  IF /\ StartsWith(body, <<"Y", "o", "u", "'", "r", "e", " ">>)
           /\ Infix(<<" ", "b", "y", " ">>, body)
           /\ Infix(Dash, body)
           /\ entity_part # <<>>
        THEN <<Sighting(parse_entity_any(Strip(entity_part)), TRUE)>>
        ELSE <<>>

\* The "Warp scramble attempt from <entity> to <entity>" lines: both
\* entities with their tickers, when both parts are there.
WarpScrambleParties(body) ==
    LET rest == After(body, <<" ", "f", "r", "o", "m", " ">>)
        src_part == Before(rest, <<" ", "t", "o", " ">>)
        tgt_part == After(rest, <<" ", "t", "o", " ">>)
    IN  IF src_part # <<>> /\ tgt_part # <<>>
        THEN <<Sighting(parse_entity_any(Strip(src_part)), TRUE),
               Sighting(parse_entity_any(Strip(tgt_part)), TRUE)>>
        ELSE <<>>

\* build_ship_timeline_and_afflog on a combat line: the entities its
\* branches read, in their order.  The "Warp scramble attempt" branch ends
\* the line whatever it finds; the "You're ... by ... - " branch does not,
\* and the line goes on to the branches behind it.
Pass1Sightings(body) ==
    IF /\ Infix(WarpScrambleAttempt, body)
       /\ Infix(<<" ", "f", "r", "o", "m", " ">>, body)
       /\ Infix(<<" ", "t", "o", " ">>, body)
    THEN WarpScrambleParties(body)
    ELSE YoureBy(body) \o
         (IF Infix(BoostedBy, body) THEN RepSighting(After(body, BoostedBy))
          ELSE IF Infix(BoostedTo, body) THEN RepSighting(After(body, BoostedTo))
          ELSE IF Infix(<<" ", "f", "r", "o", "m", " ">>, body)
          THEN DamageSighting(After(body, <<"f", "r", "o", "m", " ">>))
          ELSE IF Infix(<<" ", "t", "o", " ">>, body)
          THEN DamageSighting(After(body, <<"t", "o", " ">>))
          ELSE <<>>)

\* What the line does with an entity it has read: update_affiliation_db
\* with its tickers, and add_ship_event if it has a ship.  The map and the
\* timeline are apart, so that two entities of a line may be taken one
\* after the other.
Learned(aff, s, ts) ==
    IF s.learn THEN update_affiliation_db(aff, s.party[4], s.party[3], ts) ELSE aff

Sighted(timeline, s, ts) ==
    IF s.party[2] # <<>>
    THEN add_ship_event(timeline, s.party[1], ts, s.party[2], s.party[3], s.party[4])
    ELSE timeline

RECURSIVE Pass1Apply(_, _, _)
Pass1Apply(st, sightings, ts) ==
    IF sightings = <<>> THEN st
    ELSE Pass1Apply(Pass1State(Sighted(st.timeline, Head(sightings), ts),
                               Learned(st.aff_log, Head(sightings), ts)),
                    Tail(sightings), ts)

Pass1Combat(st, body, ts) == Pass1Apply(st, Pass1Sightings(body), ts)

\* build_ship_timeline_and_afflog on a timestamped line whose timestamp has
\* parsed: a disembarking on the notify channel gives the listener a
\* boundary, the other lines off the combat channel give nothing.
Pass1Timestamped(st, listener, chan, body, ts) ==
    IF chan = "notify" /\ Infix(DisembarkingFromShip, body) /\ listener # <<>>
    THEN Pass1State(add_ship_event(st.timeline, listener, ts, None, <<>>, <<>>), st.aff_log)
    ELSE IF chan # "combat" THEN st
    ELSE Pass1Combat(st, body, ts)

\* The lines pass 1 is given here: headers, junk, disembarkings, lines in
\* which it sees no ship, and lines that name an entity with its ship, in
\* the damage style and in the rep style, by a name with tickers or without.
P1Lines ==
    {ListenerLine(<<" ", "a", "l">>), ListenerLine(<<" ", "b", "o">>), ListenerLine(<<>>), JunkLine,
     TsLine(TsText(0), "notify", DisembarkingFromShip),
     TsLine(TsText(1), "notify", DisembarkingFromShip),
     TsLine(TsText(0), "notify", Hello),
     TsLine(TsText(0), "combat", DisembarkingFromShip),
     TsLine(TsText(0), "combat",
            \* 100 from al - Gun
            <<"1", "0", "0", " ", "f", "r", "o", "m", " ", "a", "l", " ", "-", " ", "G", "u",
              "n">>),
     TsLine(TsText(0), "combat",
            \* 100 from al[C1](Rifter) - Gun - Hits
            <<"1", "0", "0", " ", "f", "r", "o", "m", " ", "a", "l", "[", "C", "1", "]", "(",
              "R", "i", "f", "t", "e", "r", ")", " ", "-", " ", "G", "u", "n", " ", "-", " ",
              "H", "i", "t", "s">>),
     TsLine(TsText(1), "combat",
            \* 100 to bo[C2](Punisher) - Gun - Hits
            <<"1", "0", "0", " ", "t", "o", " ", "b", "o", "[", "C", "2", "]", "(", "P", "u",
              "n", "i", "s", "h", "e", "r", ")", " ", "-", " ", "G", "u", "n", " ", "-", " ",
              "H", "i", "t", "s">>),
     TsLine(TsText(1), "combat",
            \* 50 remote shield boosted by al [A1] [C1] Rifter - Rep
            <<"5", "0", " ", "r", "e", "m", "o", "t", "e", " ", "s", "h", "i", "e", "l", "d",
              " ", "b", "o", "o", "s", "t", "e", "d", " ", "b", "y", " ", "a", "l", " ", "[",
              "A", "1", "]", " ", "[", "C", "1", "]", " ", "R", "i", "f", "t", "e", "r", " ",
              "-", " ", "R", "e", "p">>),
     TsLine(TsText(0), "combat",
            \* You're jammed by bo [A2] [C1] Punisher - from al[C1](Rifter) - ECM
            <<"Y", "o", "u", "'", "r", "e", " ", "j", "a", "m", "m", "e", "d", " ", "b", "y",
              " ", "b", "o", " ", "[", "A", "2", "]", " ", "[", "C", "1", "]", " ", "P", "u",
              "n", "i", "s", "h", "e", "r", " ", "-", " ", "f", "r", "o", "m", " ", "a", "l",
              "[", "C", "1", "]", "(", "R", "i", "f", "t", "e", "r", ")", " ", "-", " ", "E",
              "C", "M">>),
     TsLine(TsText(0), "combat",
            \* Warp scramble attempt from al [A1] [C1] Rifter - to bo [A2] [C2] Punisher -
            <<"W", "a", "r", "p", " ", "s", "c", "r", "a", "m", "b", "l", "e", " ", "a", "t",
              "t", "e", "m", "p", "t", " ", "f", "r", "o", "m", " ", "a", "l", " ", "[", "A",
              "1", "]", " ", "[", "C", "1", "]", " ", "R", "i", "f", "t", "e", "r", " ", "-",
              " ", "t", "o", " ", "b", "o", " ", "[", "A", "2", "]", " ", "[", "C", "2", "]",
              " ", "P", "u", "n", "i", "s", "h", "e", "r", " ", "-">>),
     TsLine(BadTs, "notify", DisembarkingFromShip)}

\* Either pass reads the files; the run starts with one of them.
PsInit ==
    /\ TlIdle
    /\ SegIdle
    /\ EnIdle
    /\ PlIdle
    /\ RsIdle
    /\ LkIdle
    /\ AfIdle
    /\ FnIdle
    /\ CliIdle
    /\ ps_read = <<>>
    /\ ps_listener = <<>>
    /\ ps_out = <<>>
    /\ ps_others = <<>>
    /\ p1_read = <<>>
    /\ p1_listener = <<>>
    /\ \/ ps_pc = "reading" /\ p1_pc = "idle"
       \/ ps_pc = "idle" /\ p1_pc = "reading"

\* The file a line of the history stands in, and its number in that file.
FileOf(read, n) == 1 + Cardinality({k \in 1..(n - 1) : read[k].form = "open"})

LineNoOf(read, n) ==
    LET os == {k \in 1..(n - 1) : read[k].form = "open"}
    IN  IF os = {} THEN n ELSE n - (CHOOSE k \in os : \A j \in os : j <= k)

\* build_ship_timeline_and_afflog, one turn of the loop over the lines of a
\* file.
Pass1ReadLine ==
    /\ p1_pc = "reading"
    /\ Len(p1_read) < MaxFileLines
    /\ \E line \in P1Lines :
          /\ p1_read' = Append(p1_read, line)
          /\ IF line.form = "listener"
             THEN /\ p1_listener' = Strip(line.name)
                  /\ UNCHANGED <<p1_pc, ship_timeline, aff_log>>
             ELSE IF line.form # "ts"
             THEN UNCHANGED <<p1_listener, p1_pc, ship_timeline, aff_log>>
             ELSE IF ~line.ts.wellformed
             THEN /\ p1_pc' = "raised"
                  /\ UNCHANGED <<p1_listener, ship_timeline, aff_log>>
             ELSE \E st \in {Pass1Timestamped(Pass1State(ship_timeline, aff_log), p1_listener,
                                              line.chan, line.body, line.ts.seconds)} :
                  /\ ship_timeline' = st.timeline
                  /\ aff_log' = st.aff_log
                  /\ UNCHANGED <<p1_listener, p1_pc>>
    /\ UNCHANGED <<ps_read, ps_listener, ps_out, ps_others, ps_pc>>
    /\ UNCHANGED <<tl_final, tl_query, tl_result>>

\* build_ship_timeline_and_afflog, the next turn of the loop over log_paths:
\* the listener starts empty in every file.
Pass1NextFile ==
    /\ p1_pc = "reading"
    /\ Len(p1_read) < MaxFileLines
    /\ p1_read' = Append(p1_read, NextFile)
    /\ p1_listener' = <<>>
    /\ UNCHANGED <<p1_pc, ship_timeline, aff_log>>
    /\ UNCHANGED <<ps_read, ps_listener, ps_out, ps_others, ps_pc>>
    /\ UNCHANGED <<tl_final, tl_query, tl_result>>

\* build_ship_timeline_and_afflog, behind the loops: finalize_timeline, and
\* the timeline and the map are returned.
Pass1Return ==
    /\ p1_pc = "reading"
    /\ p1_pc' = "done"
    /\ ship_timeline' = finalize_timeline(ship_timeline)
    /\ tl_final' = TRUE
    /\ UNCHANGED <<p1_read, p1_listener, aff_log>>
    /\ UNCHANGED <<ps_read, ps_listener, ps_out, ps_others, ps_pc>>
    /\ UNCHANGED <<tl_query, tl_result>>

\* Variant of ParseNextFile: the listener of the file before stays.
ParseNextFile_carrying ==
    /\ ps_pc = "reading"
    /\ Len(ps_read) < MaxFileLines
    /\ ps_read' = Append(ps_read, NextFile)
    /\ UNCHANGED <<ps_listener, ps_out, ps_others, ps_pc, p1_read, p1_listener, p1_pc>>
    /\ UNCHANGED <<ship_timeline, tl_final, tl_query, tl_result, aff_log>>

\* main, the next call of parse_log_file_to_rows: the listener starts empty.
ParseNextFile ==
    /\ ps_pc = "reading"
    /\ Len(ps_read) < MaxFileLines
    /\ ps_read' = Append(ps_read, NextFile)
    /\ ps_listener' = <<>>
    /\ UNCHANGED <<ps_out, ps_others, ps_pc, p1_read, p1_listener, p1_pc, ship_timeline>>
    /\ UNCHANGED <<tl_final, tl_query, tl_result, aff_log>>

\* One turn of the loop over the lines of the file.
ParseLine ==
    /\ ps_pc = "reading"
    /\ Len(ps_read) < MaxFileLines
    /\ \E line \in PsLines :
          /\ ps_read' = Append(ps_read, line)
          /\ IF line.form = "listener"
             THEN /\ ps_listener' = Strip(line.name)
                  /\ UNCHANGED <<ps_out, ps_others, ps_pc>>
             ELSE IF line.form # "ts"
             THEN UNCHANGED <<ps_listener, ps_out, ps_others, ps_pc>>
             ELSE IF ~line.ts.wellformed
             THEN /\ ps_pc' = "raised"
                  /\ UNCHANGED <<ps_listener, ps_out, ps_others>>
             ELSE IF ps_listener = <<>>
             THEN UNCHANGED <<ps_listener, ps_out, ps_others, ps_pc>>
             ELSE \E c \in {MatcherChain(line.chan, line.body)} :
                  \E origin \in {Origin(FileOf(ps_read', Len(ps_read')),
                                         LineNoOf(ps_read', Len(ps_read')))} :
                  /\ ps_out' = ps_out \o TypedRecords(c, line, ps_listener, origin)
                  /\ ps_others' = ps_others \o OtherRecords(c, line, ps_listener, origin)
                  /\ UNCHANGED <<ps_listener, ps_pc>>
    /\ UNCHANGED <<p1_read, p1_listener, p1_pc, tlVars, aff_log>>

\* parse_ts has raised in parse_log_file_to_rows: the exception leaves the
\* function and main, which has no handler for it, and the lines that stand
\* behind the line in the file are never taken up.
LineBehindRaise ==
    /\ ps_pc = "raised"
    /\ Len(ps_read) < MaxFileLines
    /\ \E line \in PsLines : ps_read' = Append(ps_read, line)
    /\ UNCHANGED <<ps_listener, ps_out, ps_others, ps_pc>>
    /\ UNCHANGED <<p1_read, p1_listener, p1_pc, tlVars, aff_log>>

PsNext ==
    /\ \/ ParseLine
       \/ ParseNextFile
       \/ LineBehindRaise
       \/ Pass1ReadLine
       \/ Pass1NextFile
       \/ Pass1Return
    /\ UNCHANGED <<fight_combat_rows, pilot_db, aff_esi_db, esi_io, esi_net, item_names,
                   no_esi, clock, en_run, en_pc, rows_at_start, rows_after_first>>
    /\ UNCHANGED <<segVars, plVars, rsVars, lkVars, afVars, fnVars, cliVars>>

SpecParse == PsInit /\ [][PsNext]_vars

\* The listener context of line n: what the last "Listener:" line before it
\* names, nothing when there is none.
ContextIn(read, n) ==
    LET hs == {k \in 1..(n - 1) : /\ read[k].form = "listener"
                                   /\ FileOf(read, k) = FileOf(read, n)}
    IN  IF hs = {} THEN <<>>
        ELSE Strip(read[CHOOSE k \in hs : \A j \in hs : j <= k].name)

ContextAt(n) == ContextIn(ps_read, n)

\* The records made from line n of the history.
FromLine(r, n) ==
    r.log_file = FileOf(ps_read, n) /\ r.Log_file_line_number = LineNoOf(ps_read, n)

TypedOf(n) == {i \in 1..Len(ps_out) : FromLine(ps_out[i], n)}
OthersOf(n) == {i \in 1..Len(ps_others) : FromLine(ps_others[i], n)}

\* Matcher k of the chain asks this of the body.
Matches(k, body) ==
    CASE k = 1 -> RepairMatch(body, BoostedTo)
      [] k = 2 -> RepairMatch(body, BoostedBy)
      [] k = 3 -> EnergyNeutMatch(body)
      [] k = 4 -> EnergyDrainMatch(body)
      [] k = 5 -> EwarReceivedMatch(body)
      [] k = 6 -> CapacitorMatch(body)
      [] k = 7 -> GroupMissMatch(body)
      [] k = 8 -> EwarDoneMatch(body)
      [] k = 9 -> DamageMatch(body, <<"f", "r", "o", "m">>)
      [] k = 10 -> DamageMatch(body, <<"t", "o">>)
      [] k = 11 -> DroneMissMatch(body)
      [] k = 12 -> PropulsionJamMatch(body)

NMatchers == 12

Accepting(line) ==
    IF line.chan = "combat" THEN {k \in 1..NMatchers : Matches(k, line.body)} ELSE {}

\* Line n yields a record: a typed one if a matcher accepts it, otherwise an
\* "other" record with its channel and its text.
Yields(n) ==
    IF Accepting(ps_read[n]) # {} THEN TypedOf(n) # {}
    ELSE \E i \in OthersOf(n) : /\ ps_others[i].channel = ps_read[n].chan
                                /\ ps_others[i].text = ps_read[n].body

\* C19 as claimed: every timestamped line, on any channel and at any
\* position in the file, yields at least one record: a typed one if a matcher
\* accepts it, otherwise an "other" record with its channel and its text.
\* The lines are those of the file, the lines behind a timestamp that does
\* not parse among them.
C19_NoLineDiscarded ==
    \A n \in 1..Len(ps_read) : ps_read[n].form = "ts" => Yields(n)

\* The event kind a dataset holds: the "done" and "received" datasets of an
\* event hold the same kind.
KindOf(dataset) ==
    CASE dataset \in {"repairs_done", "repairs_received"} -> "repair"
      [] dataset \in {"damage_done", "damage_received"} -> "damage"
      [] dataset \in {"ewar_effects_done", "ewar_effects_received"} -> "ewar_effect"
      [] dataset \in {"cap_warfare_done", "cap_warfare_received"} -> "cap_warfare"
      [] dataset \in {"capacitor_done", "capacitor_received"} -> "capacitor_transfer"
      [] dataset = "propulsion_jam_attempts" -> "jam_attempt"

\* The kind under which matcher k records the body.
KindOfMatcher(k, body) ==
    CASE k \in {1, 2} -> "repair"
      [] k \in {3, 4} -> "cap_warfare"
      [] k = 5 -> IF EwarReceivedType(body) \in CapWarfareTypes
                  THEN "cap_warfare" ELSE "ewar_effect"
      [] k = 6 -> "capacitor_transfer"
      [] k \in {7, 9, 10, 11} -> "damage"
      [] k = 8 -> IF classify_ewar(body) \in CapWarfareTypes
                  THEN "cap_warfare" ELSE "ewar_effect"
      [] k = 12 -> "jam_attempt"

KindsOf(n) == {KindOf(ps_out[i].dataset) : i \in TypedOf(n)}

\* C20: every line is recorded under at most one event kind, that of the
\* first matcher of the chain, in its fixed order, that accepts it; a line
\* with a typed record has no "other" record, and a line that was taken up
\* and that no matcher accepts has an "other" record and no typed one.
C20_FirstMatchWins ==
    \A n \in 1..Len(ps_read) :
        LET first == CHOOSE k \in Accepting(ps_read[n]) : \A j \in Accepting(ps_read[n]) : k <= j
        IN  /\ Cardinality(KindsOf(n)) <= 1
            /\ TypedOf(n) # {} => /\ OthersOf(n) = {}
                                  /\ Accepting(ps_read[n]) # {}
                                  /\ KindsOf(n) = {KindOfMatcher(first, ps_read[n].body)}
            /\ OthersOf(n) # {} => Accepting(ps_read[n]) = {}
            /\ Cardinality(OthersOf(n)) <= 1

\* A line that two matchers of different kinds would accept (a repair and a
\* damage, or a capacitor transfer and a damage) is recorded, under the kind
\* of the earlier one.
C20_Witness ==
    \E n \in 1..Len(ps_read) :
        /\ TypedOf(n) # {}
        /\ \E j, k \in Accepting(ps_read[n]) :
              /\ j < k
              /\ KindOfMatcher(j, ps_read[n].body) # KindOfMatcher(k, ps_read[n].body)
              /\ KindsOf(n) = {KindOfMatcher(j, ps_read[n].body)}

\* The records of line n in a dataset.
RecordsIn(n, dataset) == {i \in TypedOf(n) : ps_out[i].dataset = dataset}

\* Line n is a remote capacitor transfer line that the chain took up: a
\* numeric amount, "transmitted by" or "transmitted to", a dash before the
\* module, and no earlier matcher accepts it.
CapacitorLine(n) ==
    /\ ps_read[n].form = "ts"
    /\ ps_read[n].ts.wellformed
    /\ ContextAt(n) # <<>>
    /\ ps_read[n].chan = "combat"
    /\ CapacitorMatch(ps_read[n].body)
    /\ \A k \in 1..5 : ~Matches(k, ps_read[n].body)

\* C21 as claimed: a "transmitted by" line and a "transmitted to" line each
\* append one record to capacitor_done and one record to capacitor_received.
C21_CapacitorPaired ==
    \A n \in 1..Len(ps_read) :
        CapacitorLine(n) =>
            /\ Cardinality(RecordsIn(n, "capacitor_done")) = 1
            /\ Cardinality(RecordsIn(n, "capacitor_received")) = 1

----------------------------------------------------------------------------
(* The listener context, file by file *)

\* Record r was made from a timestamped line of the history, under the
\* context that line stands in.
UnderItsContext(r) ==
    \E n \in 1..Len(ps_read) :
        /\ FromLine(r, n)
        /\ ps_read[n].form = "ts"
        /\ r.log_listener = ContextAt(n)
        /\ r.log_listener # <<>>

\* The disembarkings pass 1 has read under the context of pilot p, at second t.
DisembarkedAt(p, t) ==
    {n \in 1..Len(p1_read) :
        /\ p1_read[n].form = "ts"
        /\ p1_read[n].ts.wellformed
        /\ p1_read[n].ts.seconds = t
        /\ p1_read[n].chan = "notify"
        /\ Infix(DisembarkingFromShip, p1_read[n].body)
        /\ ContextIn(p1_read, n) = p}

\* The disembark boundaries of pilot p at second t: the events of the
\* timeline without a ship.
BoundariesAt(p, t) ==
    {i \in 1..Len(EventsOf(ship_timeline, p)) :
        /\ EventsOf(ship_timeline, p)[i].t = t
        /\ EventsOf(ship_timeline, p)[i].ship = None}

\* C22: every record of pass 2 carries the name of the most recent "Listener:"
\* line before its line in the same file, and pass 1 gives every disembark
\* boundary to the pilot named by that line: a name never passes from one
\* file into the next.  The boundaries of a pilot, whoever else the lines
\* have sighted in a ship, are as many as the disembark lines read under a
\* header with the pilot's name in the same file, second by second, before
\* finalize_timeline and behind it.
C22_ListenerPerFile ==
    /\ \A i \in 1..Len(ps_out) : UnderItsContext(ps_out[i])
    /\ \A i \in 1..Len(ps_others) : UnderItsContext(ps_others[i])
    /\ \A p \in DOMAIN ship_timeline \cup {<<"a", "l">>, <<"b", "o">>}, t \in 0..1 :
          Cardinality(BoundariesAt(p, t)) = Cardinality(DisembarkedAt(p, t))

\* A header naming al, the next file, and there a line a matcher accepts:
\* read without a listener, it leaves no record.
C22_Witness ==
    /\ Len(ps_read) = 3
    /\ ps_read[1].form = "listener"
    /\ Strip(ps_read[1].name) = <<"a", "l">>
    /\ ps_read[2].form = "open"
    /\ ps_read[3].form = "ts"
    /\ ps_read[3].ts.wellformed
    /\ Accepting(ps_read[3]) # {}
    /\ ContextAt(3) = <<>>
    /\ ps_out = <<>>
    /\ ps_others = <<>>

----------------------------------------------------------------------------
(* The order of the log files *)

\* The lines of the log of one listener, and the logs put end to end in a
\* given order of their listeners.
LinesOfFile(lines, listener) == SelectSeq(lines, LAMBDA l : l.listener = listener)

InFileOrder(lines, order) ==
    LinesOfFile(lines, order[1]) \o LinesOfFile(lines, order[2])

FileOrders == {<<Al, Bo>>, <<Bo, Al>>}

\* What a run over the lines gives: the finalized timeline, and the windows
\* of the rows of pass 2.
TimelineOfRun(lines) == build_ship_timeline_and_afflog(lines, EmptyDict).timeline

WindowsOfRun(lines) ==
    split_rows_into_fights(
        Timestamps(parse_log_file_to_rows(lines, TimelineOfRun(lines))), DefaultGapMinutes)

\* C23: whatever the order in which the log files are read, the finalized
\* timeline answers every lookup(pilot, t) alike, also when events of
\* different files have the same timestamp, and the fight windows are the same.
C23_FileOrderIndependent ==
    (pl_pc # "pass1" /\ \E order \in FileOrders : log_lines = InFileOrder(log_lines, order))
        => \A order \in FileOrders :
              /\ \A p \in {Al, Bo} :
                 \A t \in {m * SecondsPerMinute + d : m \in PlMinutes, d \in {0 - 1, 0, 1}} :
                    lookup_ship(ship_timeline, p, t)
                        = lookup_ship(TimelineOfRun(InFileOrder(log_lines, order)), p, t)
              /\ pl_pc \in {"fights", "done"}
                    => fight_windows = WindowsOfRun(InFileOrder(log_lines, order))

----------------------------------------------------------------------------
(* One key for every spelling of a name *)

\* Spellings of the name al and of the ticker C1 that differ by an invisible
\* character, a no-break space or a run of blanks only.
PilotSpellings == {Al, AlZw, <<"a", "l", "nbsp">>, <<" ", " ", "a", "l">>}
TickerSpellings == {CorpC1, CorpC1 \o <<"zw">>, <<"nbsp">> \o CorpC1}

Fills(party) == <<party.corp, party.alliance, party.ship_type>>

Bare(pilot) == Party(pilot, <<>>, <<>>, <<>>)

SameInFight(a, b) ==
    LET db == learn_from_rows_excluding_items(EmptyDict, fight_combat_rows, item_names, TRUE)
    IN  Fills(BackfillParty(db, Bare(a), TRUE)) = Fills(BackfillParty(db, Bare(b), TRUE))

SameInPilotDb(a, b) ==
    Fills(BackfillParty(pilot_db, Bare(a), FALSE)) = Fills(BackfillParty(pilot_db, Bare(b), FALSE))

SameInPilotMaps(a, b) ==
    LET maps == build_pilot_ticker_maps(fight_combat_rows)
    IN  FillCorpParty(Bare(a), maps.pilot_to_corp).corp
            = FillCorpParty(Bare(b), maps.pilot_to_corp).corp

SameInAffMap(aff_db, c, d) ==
    FillAllianceParty(Party(Al, c, <<>>, <<>>), aff_db).alliance
        = FillAllianceParty(Party(Al, d, <<>>, <<>>), aff_db).alliance

SameInLookup(a, b) ==
    LET ra == esi_get_pilot_alliance_and_corpinfo(a, esi_io, esi_net)
        rb == esi_get_pilot_alliance_and_corpinfo(b, esi_io, esi_net)
    IN  ra.alliance = rb.alliance /\ ra.corp = rb.corp

SameInKnownPlayers(a, b) ==
    LET known == build_known_players(fight_combat_rows)
    IN  _looks_like_npc(Bare(a), item_names, known) = _looks_like_npc(Bare(b), item_names, known)

\* C24: two spellings of one name, or of one ticker, are one key for the
\* in-fight cross-reference, the persistent pilot memory, the corp->alliance
\* maps, the external lookup with its cache, and the known players: whatever
\* the fight has left in them, each answers the two spellings alike.
C24_OneKeyPerName ==
    /\ \A a \in PilotSpellings, b \in PilotSpellings :
          /\ SameInFight(a, b)
          /\ SameInPilotDb(a, b)
          /\ SameInPilotMaps(a, b)
          /\ SameInLookup(a, b)
          /\ SameInKnownPlayers(a, b)
    /\ \A c \in TickerSpellings, d \in TickerSpellings :
          /\ SameInAffMap(aff_log, c, d)
          /\ SameInAffMap(aff_esi_db, c, d)

----------------------------------------------------------------------------
(* Drone and charge names in the passes that work within the fight *)

\* The passes that fill a row from what the fight's rows show of its pilot:
\* the in-fight backfill and the final one fill corp, alliance and ship, the
\* pilot->corp fill fills the corp.
FilledByPilotName(k) ==
    CASE PassOrder[k] \in {"in_fight", "final"} -> {"corp", "alliance", "ship_type"}
      [] PassOrder[k] = "pilot_corp" -> {"corp"}
      [] OTHER -> {}

\* C25: the passes that work within the fight neither learn from nor fill a
\* party whose pilot name lexically matches a drone or a charge: such a
\* party's corp, alliance and ship are after the pass what they were before.
C25_NoDroneCrossReference ==
    [][ \A i \in 1..Len(fight_combat_rows), side \in SideSet :
          looks_like_drone_or_item(PartyAt(fight_combat_rows, i, side).pilot, item_names)
            => \A f \in FilledByPilotName(en_pc) :
                  PartyAt(fight_combat_rows', i, side)[f] = PartyAt(fight_combat_rows, i, side)[f]
      ]_vars

----------------------------------------------------------------------------
(* parse_rep_party on its own *)

Bracketed(t) == <<"[">> \o t \o <<"]">>

\* "Pilot [ALL] [CORP] Ship" and "Ship [ALL] [CORP] [Pilot]"
FormatA(pilot, ship) ==
    pilot \o <<" ">> \o Bracketed(TickerALL) \o <<" ">> \o Bracketed(TickerCORP)
        \o <<" ">> \o ship

FormatB(pilot, ship) ==
    ship \o <<" ">> \o Bracketed(TickerALL) \o <<" ">> \o Bracketed(TickerCORP)
        \o <<" ">> \o Bracketed(pilot)

\* Pilot and ship names: one word, several words, and a pilot that is
\* spelled as a ship is, in another case.
PePilots == {PilotText, InternationalShoe, <<"l", "o", "k", "i">>}
PeShips == {ShipText, Loki, StabberFleetIssue}

\* What is left behind a segment: blanks and dashes.
PeTrailers == SeqsUpTo({" ", "-", "endash"}, MaxTrailer)

\* Segments in other shapes: fewer brackets, none, brackets alone, a bracket
\* that is not closed, padding inside a bracket.
PeOtherShapes ==
    { PilotText \o <<" ">> \o Bracketed(TickerCORP) \o <<" ">> \o ShipText,
      ShipText \o <<" ">> \o Bracketed(TickerALL) \o <<" ">> \o Bracketed(PilotText),
      ShipText \o <<" ">> \o Bracketed(PilotText),
      Loki \o <<" ">> \o Bracketed(<<"E", "C", "H", "O", ".">>) \o <<" ">> \o Bracketed(Loki),
      InternationalShoe,
      Bracketed(TickerALL) \o <<" ">> \o ShipText,
      Bracketed(TickerALL),
      PilotText \o <<" ", "[", "]">>,
      PilotText \o <<" ", "[">> \o TickerALL,
      PilotText \o <<" ">> \o Bracketed(<<" ">> \o TickerALL \o <<" ">>) \o <<"nbsp">> \o ShipText,
      <<>> }

PeSegments ==
    { body \o tr :
        body \in {FormatA(p, sh) : p \in PePilots, sh \in PeShips}
                    \cup {FormatB(p, sh) : p \in PePilots, sh \in PeShips}
                    \cup PeOtherShapes,
        tr \in PeTrailers }

PeInit ==
    /\ TlIdle
    /\ SegIdle
    /\ EnIdle
    /\ PlIdle
    /\ RsIdle
    /\ LkIdle
    /\ AfIdle
    /\ PsIdle
    /\ FnIdle
    /\ CliIdle

\* A call of parse_rep_party.
ParseRepParty ==
    /\ fn_args = NoCall
    /\ \E segment \in PeSegments :
          /\ fn_args' = <<segment>>
          /\ fn_result' = parse_rep_party(segment)
    /\ UNCHANGED <<tlVars, segVars, enVars, plVars, rsVars, lkVars, afVars, psVars, cliVars>>

SpecEntity == PeInit /\ [][ParseRepParty]_vars

\* C26: "Pilot [ALL] [CORP] Ship" and "Ship [ALL] [CORP] [Pilot]", with or
\* without blanks and dashes behind them, both parse to (Pilot, Ship, ALL,
\* CORP); and a pilot that equals the ship but for the case of the letters
\* is returned empty, in these two formats and in every other segment.
C26_BothFormatsOneTuple ==
    /\ \A p \in PePilots, sh \in PeShips, tr \in PeTrailers :
          fn_args \in {<<FormatA(p, sh) \o tr>>, <<FormatB(p, sh) \o tr>>}
            => fn_result = <<(IF Lower(p) = Lower(sh) THEN <<>> ELSE p), sh,
                             TickerALL, TickerCORP>>
    /\ fn_args # NoCall
          => ~(/\ fn_result[1] # <<>>
               /\ fn_result[2] # <<>>
               /\ Lower(Strip(fn_result[1])) = Lower(Strip(fn_result[2])))

\* The ship-first segment with a dash behind it has been parsed, its pilot
\* repeating the ship in small letters: the pilot is empty.
C26_Witness ==
    /\ fn_args = <<FormatB(<<"l", "o", "k", "i">>, Loki) \o <<" ", "-">>>>
    /\ fn_result = <<<<>>, Loki, TickerALL, TickerCORP>>

----------------------------------------------------------------------------
(* prompts.py, cli.py: the prompts on the way through main. *)

PromptConfig(assume_yes, non_interactive) ==
    [assume_yes |-> assume_yes, non_interactive |-> non_interactive]

\* How a prompt ended: the answer returned, by input() or without it, or the
\* RuntimeError / SystemExit raised in its place.
Prompted(kind, question, default, value, by_input, raised) ==
    [kind |-> kind, question |-> question, default |-> default, value |-> value,
     input |-> by_input, raised |-> raised]

\* What input() does when the input is at its end: it raises EOFError.
EOFError == <<"EOFError">>

\* input(...).strip().lower()
Answer(typed) == Lower(Strip(typed))

\* Prompter.confirm; typed is what input() returns if it is called.  The
\* EOFError of input() is not caught.
confirm(cfg, question, default, typed) ==
    IF cfg.assume_yes THEN Prompted("confirm", question, default, TRUE, FALSE, FALSE)
    ELSE IF cfg.non_interactive THEN Prompted("confirm", question, default, FALSE, FALSE, TRUE)
    ELSE IF typed = EOFError THEN Prompted("confirm", question, default, FALSE, TRUE, TRUE)
    ELSE Prompted("confirm", question, default,
                  IF Answer(typed) = <<>> THEN default ELSE Answer(typed)[1] = "y",
                  TRUE, FALSE)

\* Prompter.choice
choice(cfg, question, choices, default, typed) ==
    IF cfg.assume_yes THEN Prompted("choice", question, default, default, FALSE, FALSE)
    ELSE IF cfg.non_interactive THEN Prompted("choice", question, default, default, FALSE, TRUE)
    ELSE IF typed = EOFError THEN Prompted("choice", question, default, default, TRUE, TRUE)
    ELSE Prompted("choice", question, default,
                  IF Answer(typed) \in choices THEN Answer(typed) ELSE default,
                  TRUE, FALSE)

\* What a user may type at a prompt.
Typed == {<<>>, <<"Y", "e", "s">>, <<"n">>, <<"U", " ">>, <<"2">>, <<"9">>}

\* What input() may do: return a text, or raise EOFError.
Inputs == Typed \cup {EOFError}

DigitValue(ch) ==
    CASE ch = "0" -> 0 [] ch = "1" -> 1 [] ch = "2" -> 2 [] ch = "3" -> 3 [] ch = "4" -> 4
      [] ch = "5" -> 5 [] ch = "6" -> 6 [] ch = "7" -> 7 [] ch = "8" -> 8 [] ch = "9" -> 9

\* int(raw) of a text of digits
RECURSIVE IntOf(_)
IntOf(cs) ==
    IF cs = <<>> THEN 0 ELSE 10 * IntOf(SubSeq(cs, 1, Len(cs) - 1)) + DigitValue(cs[Len(cs)])

\* The 1-based index that input(...).strip() names, 0 when it is no number
IndexTyped(typed) ==
    LET raw == Strip(typed) IN IF IsDigit(raw) THEN IntOf(raw) ELSE 0

\* The log folder: logs in the folder itself, subfolders holding logs, logs
\* further down only.
Layout(root_txt, subfolders, deeper) ==
    [root_txt |-> root_txt, subfolders |-> subfolders, deeper |-> deeper]

\* len(candidates) of _choose_log_subfolder
Candidates(layout) == (IF layout.root_txt THEN 1 ELSE 0) + layout.subfolders

\* _has_any_txt_logs
_has_any_txt_logs(layout) == Candidates(layout) > 0 \/ layout.deeper

\* How the folder is preferred on the command line: not at all, by the name
\* of a candidate, by a name no candidate has, by a 1-based index.
Preferences == {"none", "name", "other_name", "index_1", "index_9"}

\* _choose_log_subfolder up to the selection prompt: "chosen" when a folder
\* is returned without asking, "exit" for the SystemExit of
\* --non-interactive, "ask" when the selection prompt is reached.
_choose_log_subfolder(layout, cfg, preferred) ==
    IF Candidates(layout) = 0 THEN "chosen"
    ELSE IF preferred = "name" THEN "chosen"
    ELSE IF preferred = "index_1" THEN "chosen"
    ELSE IF preferred = "index_9" /\ 9 <= Candidates(layout) THEN "chosen"
    ELSE IF Candidates(layout) = 1 THEN "chosen"
    ELSE IF cfg.non_interactive THEN "exit"
    ELSE "ask"

\* A file option of the command line: the empty path, the path of no file,
\* the path of a file.
NoPath == "no_path"
FilePaths == {NoPath, "missing", "exists"}

CliArgs ==
    [yes : BOOLEAN, non_interactive : BOOLEAN, no_esi : BOOLEAN, preferred : Preferences,
     layout : {Layout(r, n, d) : r \in BOOLEAN, n \in 0..MaxSubfolders, d \in BOOLEAN},
     sde_missing : BOOLEAN, aff_log_db_file : FilePaths, aff_esi_db_file : FilePaths,
     cache_file : FilePaths, has_fights : BOOLEAN]

Cfg == PromptConfig(cli_args.yes, cli_args.non_interactive)

CliInit ==
    /\ TlIdle
    /\ SegIdle
    /\ EnIdle
    /\ PlIdle
    /\ RsIdle
    /\ LkIdle
    /\ AfIdle
    /\ PsIdle
    /\ FnIdle
    /\ cli_args \in CliArgs
    /\ cli_pc = "start"
    /\ cli_prompts = <<>>

\* main up to the Prompter: without any log under the folder it returns.
FindLogs ==
    /\ cli_pc = "start"
    /\ cli_pc' = IF _has_any_txt_logs(cli_args.layout) THEN "choose" ELSE "returned"
    /\ UNCHANGED <<cli_args, cli_prompts>>

\* _choose_log_subfolder, and the listing of the files of the folder it
\* chose: a folder without logs of its own ends the run.  At the selection
\* prompt input() is called until the answer is empty or a valid number; the
\* EOFError of input() ends the run with SystemExit.
ChooseLogSubfolder ==
    /\ cli_pc = "choose"
    /\ \E way \in {_choose_log_subfolder(cli_args.layout, Cfg, cli_args.preferred)} :
          IF way = "chosen"
          THEN /\ cli_pc' = IF Candidates(cli_args.layout) = 0 THEN "returned" ELSE "continue"
               /\ UNCHANGED cli_prompts
          ELSE IF way = "exit"
          THEN /\ cli_pc' = "exit"
               /\ UNCHANGED cli_prompts
          ELSE /\ Len(cli_prompts) < MaxSelections
               /\ \E typed \in Inputs :
                     /\ cli_prompts' = Append(cli_prompts,
                            Prompted("choice", "Select which log folder to use", <<>>,
                                     IF typed = EOFError THEN <<>> ELSE Strip(typed), TRUE,
                                     typed = EOFError))
                     /\ cli_pc' = IF typed = EOFError THEN "exit"
                                  ELSE IF \/ Strip(typed) = <<>>
                                          \/ /\ 1 <= IndexTyped(typed)
                                             /\ IndexTyped(typed) <= Candidates(cli_args.layout)
                                  THEN "continue" ELSE "choose"
    /\ UNCHANGED cli_args

\* A step of main that is one prompt: the prompt is logged, and main goes
\* on to yes_pc or no_pc with the answer, or ends with what the prompt raised.
AskAt(pc, prompt, goes_on, yes_pc, no_pc) ==
    /\ cli_pc = pc
    /\ cli_prompts' = Append(cli_prompts, prompt)
    /\ cli_pc' = IF prompt.raised THEN "raised" ELSE IF goes_on THEN yes_pc ELSE no_pc
    /\ UNCHANGED cli_args

\* A step of main that is a call of maybe_reset_aff_db or maybe_reset_cache:
\* the prompt it made, if any, is logged, and main goes on unless it raised.
ResetAt(pc, reset, next_pc) ==
    /\ cli_pc = pc
    /\ cli_prompts' = cli_prompts \o reset.prompts
    /\ cli_pc' = IF reset.raised THEN "raised" ELSE next_pc
    /\ UNCHANGED cli_args

\* prompter.confirm("Continue analysis?", default=True)
ContinueAnalysis ==
    \E typed \in Inputs :
        \E prompt \in {confirm(Cfg, "Continue analysis?", TRUE, typed)} :
            AskAt("continue", prompt, prompt.value, "sde", "returned")

\* ensure_sde_present
EnsureSdePresent ==
    IF ~cli_args.sde_missing
    THEN cli_pc = "sde" /\ cli_pc' = "aff_log" /\ UNCHANGED <<cli_args, cli_prompts>>
    ELSE \E typed \in Inputs :
            \E prompt \in {confirm(Cfg, "Download missing SDE file(s) now?", TRUE, typed)} :
                AskAt("sde", prompt, prompt.value, "aff_log", "exit")

\* What a call of maybe_reset_aff_db or maybe_reset_cache did: the prompt it
\* made, and should_save if it returned.
NoReset == [prompts |-> <<>>, raised |-> FALSE, should_save |-> FALSE]

Reset(prompt) ==
    [prompts |-> <<prompt>>, raised |-> prompt.raised,
     should_save |-> ~prompt.raised /\ IF prompt.kind = "confirm" THEN prompt.value
                                       ELSE prompt.value \in {<<"y">>, <<"u">>}]

\* maybe_reset_aff_db: nothing is asked about the empty path; the choice
\* y/u/n over a DB that exists, the confirmation to create one that does
\* not.
maybe_reset_aff_db(path, label, cfg, typed) ==
    IF path = NoPath THEN NoReset
    ELSE IF path = "exists"
    THEN Reset(choice(cfg, <<"Use existing DB?", label>>, {<<"y">>, <<"u">>, <<"n">>}, <<"y">>, typed))
    ELSE Reset(confirm(cfg, <<"Create and save a new DB from this run?", label>>, TRUE, typed))

\* main goes on with any answer.
ResetAffLogDb ==
    \E typed \in Inputs :
        ResetAt("aff_log",
                maybe_reset_aff_db(cli_args.aff_log_db_file, "affiliations_from_logs", Cfg, typed),
                "aff_esi")

ResetAffEsiDb ==
    \E typed \in Inputs :
        ResetAt("aff_esi",
                maybe_reset_aff_db(cli_args.aff_esi_db_file, "affiliations_from_esi", Cfg, typed),
                "parse")

\* The two passes and the split into fights: without a fight main returns;
\* with --no-esi there is no cache to ask about.
ParseAndSplit ==
    /\ cli_pc = "parse"
    /\ cli_pc' = IF ~cli_args.has_fights THEN "returned"
                 ELSE IF cli_args.no_esi THEN "fights"
                 ELSE "cache"
    /\ UNCHANGED <<cli_args, cli_prompts>>

\* maybe_reset_cache
maybe_reset_cache(cache_file, cfg, typed) ==
    IF cache_file = NoPath THEN NoReset
    ELSE IF cache_file = "exists"
    THEN Reset(choice(cfg, "Use existing ESI cache?", {<<"y">>, <<"u">>, <<"n">>}, <<"y">>, typed))
    ELSE Reset(confirm(cfg, "Create and save a new ESI cache file?", TRUE, typed))

ResetCache ==
    \E typed \in Inputs :
        ResetAt("cache", maybe_reset_cache(cli_args.cache_file, Cfg, typed), "fights")

CliNext ==
    /\ \/ FindLogs
       \/ ChooseLogSubfolder
       \/ ContinueAnalysis
       \/ EnsureSdePresent
       \/ ResetAffLogDb
       \/ ResetAffEsiDb
       \/ ParseAndSplit
       \/ ResetCache
    /\ UNCHANGED <<tlVars, segVars, enVars, plVars, rsVars, lkVars, afVars, psVars, fnVars>>

SpecPrompts == CliInit /\ [][CliNext]_vars

\* C27: with --yes no prompt of the run calls input(), and every prompt is
\* answered with yes, or with its default where it is a choice.
C27_YesNeverPrompts ==
    cli_args.yes =>
        \A i \in 1..Len(cli_prompts) :
            /\ ~cli_prompts[i].input
            /\ ~cli_prompts[i].raised
            /\ IF cli_prompts[i].kind = "confirm" THEN cli_prompts[i].value
               ELSE cli_prompts[i].value = cli_prompts[i].default

----------------------------------------------------------------------------
(* cli.py: the de-duplication of the propulsion jamming attempts *)

JamRow(attempt_type, module, source_pilot, target_pilot, timestamp, log_file) ==
    [attempt_type |-> attempt_type, module |-> module, source_pilot |-> source_pilot,
     target_pilot |-> target_pilot, timestamp |-> timestamp, log_file |-> log_file,
     Log_file_line_number |-> 1]

JamKey(r) == <<r.attempt_type, r.module, r.source_pilot, r.target_pilot>>

\* The characters from code point 32 to code point 95, and those from code
\* point 97 to code point 126, in order.
AsciiFrom32 ==
    <<" ", "!", "\"", "#", "$", "%", "&", "'", "(", ")", "*", "+", ",", "-", ".", "/",
      "0", "1", "2", "3", "4", "5", "6", "7", "8", "9", ":", ";", "<", "=", ">", "?",
      "@", "A", "B", "C", "D", "E", "F", "G", "H", "I", "J", "K", "L", "M", "N", "O",
      "P", "Q", "R", "S", "T", "U", "V", "W", "X", "Y", "Z", "[", "\\", "]", "^", "_">>

AsciiFrom97 ==
    <<"a", "b", "c", "d", "e", "f", "g", "h", "i", "j", "k", "l", "m", "n", "o", "p",
      "q", "r", "s", "t", "u", "v", "w", "x", "y", "z", "{", "|", "}", "~">>

\* ord(c): the code point of a character; the characters beyond the tables
\* are the no-break space, the zero-width space and the two dashes.
ord(c) ==
    CASE c = "nbsp" -> 160
      [] c = "zw" -> 8203
      [] c = "endash" -> 8211
      [] c = "emdash" -> 8212
      [] \E i \in 1..Len(AsciiFrom32) : AsciiFrom32[i] = c ->
            31 + (CHOOSE i \in 1..Len(AsciiFrom32) : AsciiFrom32[i] = c)
      [] OTHER -> 96 + (CHOOSE i \in 1..Len(AsciiFrom97) : AsciiFrom97[i] = c)

\* a < b of two str: the code points at the first place where the texts
\* differ decide, and a text comes before the texts it begins.
StrLess(a, b) ==
    LET shorter == IF Len(a) < Len(b) THEN Len(a) ELSE Len(b)
        differ == {i \in 1..shorter : a[i] # b[i]}
    IN  IF differ = {} THEN Len(a) < Len(b)
        ELSE LET first == CHOOSE i \in differ : \A j \in differ : i <= j
             IN  ord(a[first]) < ord(b[first])

\* The sort key (source_pilot, target_pilot, timestamp) of a is <= that of
\* b: tuples of str compare item by item, the timestamps as the texts they
\* are.
JamSortLeq(a, b) ==
    \/ StrLess(a.source_pilot, b.source_pilot)
    \/ /\ a.source_pilot = b.source_pilot
       /\ \/ StrLess(a.target_pilot, b.target_pilot)
          \/ /\ a.target_pilot = b.target_pilot
             /\ ~StrLess(b.timestamp, a.timestamp)

\* Where the run of characters of a class that starts at a place ends:
\* the place behind its last character.
RECURSIVE RunEnd(_, _, _)
RunEnd(text, at, class) ==
    IF at <= Len(text) /\ InClass(text[at], class) THEN RunEnd(text, at + 1, class) ELSE at

DaysInMonth(year, month) ==
    IF month = 2
    THEN IF year % 4 = 0 /\ (year % 100 # 0 \/ year % 400 = 0) THEN 29 ELSE 28
    ELSE IF month \in {4, 6, 9, 11} THEN 30 ELSE 31

RECURSIVE DaysBeforeMonth(_, _)
DaysBeforeMonth(year, month) ==
    IF month = 1 THEN 0 ELSE DaysBeforeMonth(year, month - 1) + DaysInMonth(year, month - 1)

\* date.toordinal(): the days from 0001-01-01, which is day 1.
Ordinal(year, month, day) ==
    365 * (year - 1) + (year - 1) \div 4 - (year - 1) \div 100 + (year - 1) \div 400
        + DaysBeforeMonth(year, month) + day

\* What the try around _parse_ts leaves for a text that does not parse.
NoDatetime == [ordinal |-> 0, second |-> 0]

\* datetime.strptime(ts, TS_FMT) with TS_FMT = "%Y.%m.%d %H:%M:%S", as the
\* day and the second of the day.  The text must read, from its first to
\* its last character: four digits; "."; a month of one or two digits;
\* "."; a day of one or two digits, or a blank and one digit; whitespace;
\* an hour, ":", a minute, ":" and a second of one or two digits each.  The
\* pattern admits months 1-12, days 1-31, hours 0-23, minutes 0-59 and
\* seconds 0-61; the datetime then takes no year 0, no day the month does
\* not have and no second beyond 59.
strptime(ts) ==
    LET n == Len(ts)
        At(i) == IF i >= 1 /\ i <= n THEN ts[i] ELSE ""
        mAt == 6
        mEnd == RunEnd(ts, mAt, "digit")
        dBlank == IF At(mEnd + 1) = " " THEN 1 ELSE 0
        dAt == mEnd + 1 + dBlank
        dEnd == RunEnd(ts, dAt, "digit")
        HAt == RunEnd(ts, dEnd, "space")
        HEnd == RunEnd(ts, HAt, "digit")
        MAt == HEnd + 1
        MEnd == RunEnd(ts, MAt, "digit")
        SAt == MEnd + 1
        SEnd == RunEnd(ts, SAt, "digit")
        Field(from, end) == IntOf(SubSeq(ts, from, end - 1))
        year == Field(1, 5)
        month == Field(mAt, mEnd)
        day == Field(dAt, dEnd)
        matched ==
            /\ n >= 5
            /\ IsDigit(SubSeq(ts, 1, 4))
            /\ At(5) = "."
            /\ mEnd - mAt \in 1..2
            /\ month \in 1..12
            /\ At(mEnd) = "."
            /\ dEnd - dAt \in 1..(2 - dBlank)
            /\ day \in 1..31
            /\ HAt > dEnd
            /\ HEnd - HAt \in 1..2
            /\ Field(HAt, HEnd) \in 0..23
            /\ At(HEnd) = ":"
            /\ MEnd - MAt \in 1..2
            /\ Field(MAt, MEnd) \in 0..59
            /\ At(MEnd) = ":"
            /\ SEnd - SAt \in 1..2
            /\ Field(SAt, SEnd) \in 0..61
            /\ SEnd = n + 1
    IN  IF /\ matched
           /\ year >= 1
           /\ day <= DaysInMonth(year, month)
           /\ Field(SAt, SEnd) <= 59
        THEN [ordinal |-> Ordinal(year, month, day),
              second |-> 3600 * Field(HAt, HEnd) + 60 * Field(MAt, MEnd) + Field(SAt, SEnd)]
        ELSE NoDatetime

\* abs((a - b).total_seconds()) <= 1.0
WithinASecond(a, b) ==
    /\ a.ordinal - b.ordinal \in {0 - 1, 0, 1}
    /\ 86400 * (a.ordinal - b.ordinal) + (a.second - b.second) \in {0 - 1, 0, 1}

\* sorted(rows, key=...): a row goes behind every row whose key is <= its own.
RECURSIVE InsertJam(_, _)
InsertJam(sorted, r) ==
    IF sorted = <<>> THEN <<r>>
    ELSE IF JamSortLeq(sorted[Len(sorted)], r) THEN Append(sorted, r)
    ELSE Append(InsertJam(SubSeq(sorted, 1, Len(sorted) - 1), r), sorted[Len(sorted)])

RECURSIVE SortJam(_)
SortJam(rs) ==
    IF rs = <<>> THEN <<>>
    ELSE InsertJam(SortJam(SubSeq(rs, 1, Len(rs) - 1)), rs[Len(rs)])

\* The row as it is put out: rr = dict(r) with origin_count = 1 and the
\* origin lists, kept here as sequences, of the row alone.
Originated(r) ==
    [attempt_type |-> r.attempt_type, module |-> r.module, source_pilot |-> r.source_pilot,
     target_pilot |-> r.target_pilot, timestamp |-> r.timestamp, log_file |-> r.log_file,
     Log_file_line_number |-> r.Log_file_line_number, origin_count |-> 1,
     origin_log_files |-> <<r.log_file>>,
     origin_line_numbers |-> <<r.Log_file_line_number>>]

\* The items of a list without the repeats, in the order of their first place.
RECURSIVE Unrepeated(_)
Unrepeated(items) ==
    IF items = <<>> THEN <<>>
    ELSE LET front == Unrepeated(SubSeq(items, 1, Len(items) - 1))
             x == items[Len(items)]
         IN  IF \E i \in 1..Len(front) : front[i] = x THEN front ELSE Append(front, x)

\* One turn of the loop: r is merged into the last row put out when the keys
\* are equal, both timestamps parse and the times are at most a second apart,
\* and put out otherwise.
DedupeStep(out, r) ==
    IF out = <<>> THEN <<Originated(r)>>
    ELSE
    LET prev == out[Len(out)]
        dt_r == strptime(r.timestamp)
        dt_prev == strptime(prev.timestamp)
        close == /\ dt_r # NoDatetime
                 /\ dt_prev # NoDatetime
                 /\ WithinASecond(dt_r, dt_prev)
    IN  IF JamKey(r) # JamKey(prev) THEN Append(out, Originated(r))
        ELSE IF close
        THEN [out EXCEPT ![Len(out)].origin_count = @ + 1,
                         ![Len(out)].origin_log_files = Append(@, r.log_file),
                         ![Len(out)].origin_line_numbers = Append(@, r.Log_file_line_number)]
        ELSE Append(out, Originated(r))

RECURSIVE DedupeLoop(_, _)
DedupeLoop(out, rows_sorted) ==
    IF rows_sorted = <<>> THEN out
    ELSE DedupeLoop(DedupeStep(out, Head(rows_sorted)), Tail(rows_sorted))

_dedupe_propulsion_jam_attempts(rs) ==
    LET out == DedupeLoop(<<>>, SortJam(rs))
    IN  [i \in 1..Len(out) |->
            [out[i] EXCEPT !.origin_log_files = Unrepeated(@),
                           !.origin_line_numbers = Unrepeated(@)]]

\* The timestamp texts of the attempts: three seconds one after the other,
\* and a text that does not parse and stands, as a string, between the
\* first and the second of them.
JamMinute ==
    <<"2", "0", "2", "4", ".", "0", "1", ".", "0", "1", " ", "0", "0", ":", "0", "0", ":", "0">>

JamTimestamps ==
    {JamMinute \o <<"0">>, JamMinute \o <<"1">>, JamMinute \o <<"2">>,
     JamMinute \o <<"0", "x">>}

\* The attempts of a fight: al tries to scramble and to disrupt bo and cy,
\* with one module, as the first line of two logs has them.
JamRows ==
    { JamRow(a, <<"S", "c", "r", "a", "m">>, Al, tgt, ts, f) :
        a \in {"scramble", "disruption"}, tgt \in {Bo, <<"c", "y">>}, ts \in JamTimestamps,
        f \in {"a.txt", "b.txt"} }

JamInit ==
    /\ TlIdle
    /\ SegIdle
    /\ EnIdle
    /\ PlIdle
    /\ RsIdle
    /\ LkIdle
    /\ AfIdle
    /\ PsIdle
    /\ FnIdle
    /\ CliIdle

\* A call of _dedupe_propulsion_jam_attempts.
DedupeJamAttempts ==
    /\ fn_args = NoCall
    /\ \E rs \in SeqsUpTo(JamRows, MaxJamRows) :
          /\ fn_args' = <<rs>>
          /\ fn_result' = _dedupe_propulsion_jam_attempts(rs)
    /\ UNCHANGED <<tlVars, segVars, enVars, plVars, rsVars, lkVars, afVars, psVars, cliVars>>

SpecDedupe == JamInit /\ [][DedupeJamAttempts]_vars

RECURSIVE SumOriginCount(_)
SumOriginCount(out) ==
    IF out = <<>> THEN 0 ELSE Head(out).origin_count + SumOriginCount(Tail(out))

\* C28: in the output of the de-duplication no two rows have the same
\* (attempt_type, module, source_pilot, target_pilot) and times at most one
\* second apart, whatever the order and the mix of the input rows, and the
\* origin_count values add up to the number of input rows.  A timestamp
\* that does not parse is no time: it is within a second of none.
C28_NoDuplicateAttempts ==
    fn_args # NoCall =>
        /\ \A i \in 1..Len(fn_result), j \in 1..Len(fn_result) :
              (/\ i < j
               /\ JamKey(fn_result[i]) = JamKey(fn_result[j])
               /\ strptime(fn_result[i].timestamp) # NoDatetime
               /\ strptime(fn_result[j].timestamp) # NoDatetime)
                => ~WithinASecond(strptime(fn_result[i].timestamp),
                                  strptime(fn_result[j].timestamp))
        /\ SumOriginCount(fn_result) = Len(fn_args[1])

----------------------------------------------------------------------------
(* cli.py: the fight windows of a run and the rows each fight is given.    *)
(* The typed rows stand for the combat datasets that main puts end to end  *)
(* in all_combat_rows; others_rows is kept apart and takes no part in the  *)
(* windows.                                                                *)

WinRow(ts, line_no) == [timestamp |-> ts, Log_file_line_number |-> line_no]

\* main from the split into fights to the rows of each fight: with no window
\* main returns and no fight is put out.
SplitAndFilter(typed, others) ==
    LET windows == split_rows_into_fights(Timestamps(typed), DefaultGapMinutes) IN
    [fight_windows |-> windows,
     fights |-> [i \in 1..Len(windows) |->
                   [typed |-> filter_rows_by_window(typed, windows[i]),
                    others |-> filter_rows_by_window(others, windows[i])]]]

\* Times a threshold apart, a second more than that, and between them; and
\* a timestamp that does not parse.
WinSeconds ==
    {0, SecondsPerMinute, DefaultGapMinutes * SecondsPerMinute,
     (DefaultGapMinutes + 1) * SecondsPerMinute + 1,
     (2 * DefaultGapMinutes + 2) * SecondsPerMinute}

WinTimestamps == {TsText(t) : t \in WinSeconds} \cup {BadTs}

\* The rows of a run, numbered by the lines they come from.
NumberedRows(timestamps, first) ==
    [k \in 1..Len(timestamps) |-> WinRow(timestamps[k], first + k)]

FiInit ==
    /\ TlIdle
    /\ SegIdle
    /\ EnIdle
    /\ PlIdle
    /\ RsIdle
    /\ LkIdle
    /\ AfIdle
    /\ PsIdle
    /\ FnIdle
    /\ CliIdle

\* The split into fights and the rows of every fight, for one run.
SplitAndFilterFights ==
    /\ fn_args = NoCall
    /\ \E tt \in SeqsUpTo(WinTimestamps, MaxTypedRows),
          ot \in SeqsUpTo(WinTimestamps, MaxOtherRows) :
          \E typed \in {NumberedRows(tt, 0)}, others \in {NumberedRows(ot, Len(tt))} :
             /\ fn_args' = <<typed, others>>
             /\ fn_result' = SplitAndFilter(typed, others)
    /\ UNCHANGED <<tlVars, segVars, enVars, plVars, rsVars, lkVars, afVars, psVars, cliVars>>

SpecFights == FiInit /\ [][SplitAndFilterFights]_vars

IsMember(r, rs) == \E k \in 1..Len(rs) : rs[k] = r

\* The fights whose typed rows, or whose other rows, hold r.
FightsOfTyped(r) ==
    {i \in 1..Len(fn_result.fights) : IsMember(r, fn_result.fights[i].typed)}

FightsOfOther(r) ==
    {i \in 1..Len(fn_result.fights) : IsMember(r, fn_result.fights[i].others)}

Parseable(rs) == {rs[k] : k \in {h \in 1..Len(rs) : _parse_ts(rs[h].timestamp) # NoTime}}

\* C30 as claimed: every record of pass 2 with a parseable timestamp, typed
\* or "other", is selected by filter_rows_by_window for exactly one fight
\* window.
C30_AsClaimed ==
    fn_args # NoCall =>
        /\ \A r \in Parseable(fn_args[1]) : Cardinality(FightsOfTyped(r)) = 1
        /\ \A r \in Parseable(fn_args[2]) : Cardinality(FightsOfOther(r)) = 1

\* The times of the typed rows, and whether t lies between two of them
\* that no gap above the threshold separates.
CombatTimes == {_parse_ts(r.timestamp) : r \in Parseable(fn_args[1])}

NoGapBetween(a, b) ==
    \A c \in CombatTimes, d \in CombatTimes :
        (/\ a <= c /\ c < d /\ d <= b
         /\ ~ \E x \in CombatTimes : c < x /\ x < d)
        => d - c <= DefaultGapMinutes * SecondsPerMinute

WithinCombat(t) ==
    \E a \in CombatTimes, b \in CombatTimes : a <= t /\ t <= b /\ NoGapBetween(a, b)

\* C30: every typed record with a parseable timestamp is selected for
\* exactly one fight window.  An "other" record with a parseable timestamp
\* is selected for exactly one fight window when its time lies between two
\* combat times that no gap above the threshold separates, and for none
\* otherwise: before the first combat event, after the last, in the gap
\* between two fights, or in a run without combat events.
C30_OthersOnlyInsideFights ==
    fn_args # NoCall =>
        /\ \A r \in Parseable(fn_args[1]) : Cardinality(FightsOfTyped(r)) = 1
        /\ \A r \in Parseable(fn_args[2]) :
              Cardinality(FightsOfOther(r)) =
                  (IF WithinCombat(_parse_ts(r.timestamp)) THEN 1 ELSE 0)

\* Two fights; one "other" row at the time of the first fight, which that
\* fight is given, and one in the gap between the fights, which no fight is
\* given.
C30_Witness ==
    /\ fn_args # NoCall
    /\ Len(fn_result.fight_windows) = 2
    /\ Len(fn_args[2]) = 2
    /\ FightsOfOther(fn_args[2][1]) = {1}
    /\ _parse_ts(fn_args[2][2].timestamp) # NoTime
    /\ FightsOfOther(fn_args[2][2]) = {}

====
